---------------------------- MODULE Spec2Model ----------------------------
(***************************************************************************)
(* Operational-analysis pipeline: task-identifier extraction, the query    *)
(* classification, the stage pipelines (OpsAnalysisOrchestrator and        *)
(* OrchestratorAgent.handle_query) and the deterministic analysis tools    *)
(* (log, code, metrics, incident, ticket).                                 *)
(*                                                                         *)
(* Text is modelled as a sequence of one-character strings, so that        *)
(* lower-casing, substring search, slicing and splitting are computed as   *)
(* Python computes them.                                                   *)
(***************************************************************************)
EXTENDS Integers, Sequences, FiniteSets, TLC

VARIABLES
    comp,     \* the component this behaviour exercises
    pc,       \* position inside the running operation
    stage,    \* pipeline stage being considered / run; the entry point that ran, for the
              \* incident lookups; "none" elsewhere
    query,    \* the user's query text
    task_id,  \* the extracted task identifier
    flags,    \* intent flags of the query
    plan,     \* the stages planned for the query (task list / agent plan)
    env,      \* the external stores and collaborators (read-only)
    context,  \* the pipeline's context: sequence of <<key, value>> in insertion order;
              \* for the log and the code tool, the values _run builds on the way
    result    \* the value the operation returns

vars == <<comp, pc, stage, query, task_id, flags, plan, env, context, result>>

----------------------------------------------------------------------------
(* Text primitives (Python str).                                           *)

UpperCase == <<"A","B","C","D","E","F","G","H","I","J","K","L","M",
               "N","O","P","Q","R","S","T","U","V","W","X","Y","Z">>
LowerCase == <<"a","b","c","d","e","f","g","h","i","j","k","l","m",
               "n","o","p","q","r","s","t","u","v","w","x","y","z">>
Digits == {"0","1","2","3","4","5","6","7","8","9"}

\* str.lower() on one character
LowerChar(c) ==
    IF \E i \in DOMAIN UpperCase : UpperCase[i] = c
    THEN LowerCase[CHOOSE i \in DOMAIN UpperCase : UpperCase[i] = c]
    ELSE c

\* str.lower()
Lower(s) == [i \in 1..Len(s) |-> LowerChar(s[i])]

\* s[i:i+len(w)] == w  (i is 0-based, as in Python)
MatchesAt(s, w, i) ==
    /\ i + Len(w) <= Len(s)
    /\ \A j \in 1..Len(w) : s[i + j] = w[j]

\* w in s
Contains(s, w) == \E i \in 0..Len(s) : MatchesAt(s, w, i)

\* s[:n]
Take(s, n) == SubSeq(s, 1, IF Len(s) < n THEN Len(s) ELSE n)

\* any(w in s for w in words)
ContainsAny(s, words) == \E w \in words : Contains(s, w)

\* s.endswith(w)
EndsWith(s, w) == Len(w) <= Len(s) /\ MatchesAt(s, w, Len(s) - Len(w))

Whitespace == {" ", "\t", "\n"}

\* s.strip()
Strip(s) ==
    IF \A i \in 1..Len(s) : s[i] \in Whitespace THEN <<>>
    ELSE LET a == CHOOSE i \in 1..Len(s) :
                    s[i] \notin Whitespace /\ \A j \in 1..(i - 1) : s[j] \in Whitespace
             b == CHOOSE i \in 1..Len(s) :
                    s[i] \notin Whitespace /\ \A j \in (i + 1)..Len(s) : s[j] \in Whitespace
         IN SubSeq(s, a, b)

\* s.split(): the maximal runs of non-whitespace characters, in order
RECURSIVE SplitFrom(_, _, _)
SplitFrom(s, i, word) ==
    IF i > Len(s) THEN (IF word = <<>> THEN <<>> ELSE <<word>>)
    ELSE IF s[i] \in Whitespace
         THEN (IF word = <<>> THEN <<>> ELSE <<word>>) \o SplitFrom(s, i + 1, <<>>)
         ELSE SplitFrom(s, i + 1, Append(word, s[i]))
Split(s) == SplitFrom(s, 1, <<>>)

\* sep.join(parts)
RECURSIVE Join(_, _)
Join(parts, sep) ==
    IF parts = <<>> THEN <<>>
    ELSE IF Len(parts) = 1 THEN parts[1]
    ELSE parts[1] \o sep \o Join(Tail(parts), sep)

\* [x for x in s if keep(x)] and concatenation of a sequence of sequences
RECURSIVE Flatten(_)
Flatten(ss) == IF ss = <<>> THEN <<>> ELSE ss[1] \o Flatten(Tail(ss))

Range(s) == {s[i] : i \in DOMAIN s}

----------------------------------------------------------------------------
(* Identifier and intent extraction.                                       *)

\* UNKNOWN is the text 'UNKNOWN'
UNKNOWN == <<"U","N","K","N","O","W","N">>

PERFORMANCE_KEYWORDS == {<<"s","l","o","w">>, <<"l","a","t","e","n","c","y">>,
                         <<"p","e","r","f","o","r","m","a","n","c","e">>,
                         <<"t","i","m","e","o","u","t">>}
ERROR_QUERY_KEYWORDS == {<<"f","a","i","l">>, <<"e","r","r","o","r">>,
                         <<"e","x","c","e","p","t","i","o","n">>, <<"c","r","a","s","h">>}

\* number of digits of s starting at 0-based offset i  (\d+ is greedy)
RECURSIVE DigitRun(_, _)
DigitRun(s, i) ==
    IF i + 1 <= Len(s) /\ s[i + 1] \in Digits THEN 1 + DigitRun(s, i + 1) ELSE 0

\* length of the match of TID[-_]?\d+ at 0-based offset i, 0 when there is none
TidMatchLen(s, i) ==
    IF ~MatchesAt(s, <<"T","I","D">>, i) THEN 0
    ELSE IF i + 4 <= Len(s) /\ s[i + 4] \in {"-", "_"} /\ DigitRun(s, i + 4) > 0
         THEN 4 + DigitRun(s, i + 4)
         ELSE IF DigitRun(s, i + 3) > 0 THEN 3 + DigitRun(s, i + 3) ELSE 0

\* re.search(r"TID[-_]?\d+", q): group(0) of the leftmost match, else "UNKNOWN"
extract_task_id(q) ==
    IF \E i \in 0..Len(q) : TidMatchLen(q, i) > 0
    THEN LET i == CHOOSE k \in 0..Len(q) :
                    /\ TidMatchLen(q, k) > 0
                    /\ \A m \in 0..(k - 1) : TidMatchLen(q, m) = 0
         IN SubSeq(q, i + 1, i + TidMatchLen(q, i))
    ELSE UNKNOWN

\* (variant that tests the query as typed, without lower-casing it)
is_performance_query_as_typed(q) == ContainsAny(q, PERFORMANCE_KEYWORDS)
is_performance_query(q) == ContainsAny(Lower(q), PERFORMANCE_KEYWORDS)
is_error_query(q) == ContainsAny(Lower(q), ERROR_QUERY_KEYWORDS)

----------------------------------------------------------------------------
(* OrchestratorAgent (handle_query) and its agents.                        *)

\* classify_agents_needed: the plan, in the order the trigger groups are tested
classify_agents_needed(q) ==
    LET ql == Lower(q) IN
    (IF Contains(ql, <<"f","a","i","l">>) \/ Contains(ql, <<"e","r","r","o","r">>) THEN <<"log", "code">> ELSE <<>>)
    \o (IF Contains(ql, <<"l","a","t","e","n","c","y">>) \/ Contains(ql, <<"t","i","m","e">>) THEN <<"database">> ELSE <<>>)
    \o (IF Contains(ql, <<"i","n","c","i","d","e","n","t">>) THEN <<"incident">> ELSE <<>>)
    \o (IF Contains(ql, <<"j","i","r","a">>) \/ Contains(ql, <<"t","i","c","k","e","t">>) \/ Contains(ql, <<"e","s","c","a","l","a","t","e">>)
        THEN <<"jira">> ELSE <<>>)

\* the dict `context`: keys in insertion order, lookup, membership
Keys(ctx) == {ctx[i][1] : i \in DOMAIN ctx}
HasKey(ctx, k) == k \in Keys(ctx)
Value(ctx, k) == ctx[CHOOSE i \in DOMAIN ctx : ctx[i][1] = k][2]
\* (variant that puts a new key in front of the others)
SetKey_in_front(ctx, k, v) ==
    IF HasKey(ctx, k)
    THEN [i \in DOMAIN ctx |-> IF ctx[i][1] = k THEN <<k, v>> ELSE ctx[i]]
    ELSE <<<<k, v>>>> \o ctx
\* context[k] = v : replaces the value in place when k is present, else appends
SetKey(ctx, k, v) ==
    IF HasKey(ctx, k)
    THEN [i \in DOMAIN ctx |-> IF ctx[i][1] = k THEN <<k, v>> ELSE ctx[i]]
    ELSE Append(ctx, <<k, v>>)
\* context.get("log_summary", "")
GetText(ctx, k) == IF HasKey(ctx, k) THEN Value(ctx, k).text ELSE <<>>

Raise(exc) == [kind |-> "raise", exc |-> exc]

\* classify_log_error: one issue per (line, keyword) pair, lines outer, keywords inner
classify_keywords == <<<<"e","x","c","e","p","t","i","o","n">>,
                     <<"t","r","a","c","e","b","a","c","k">>, <<"f","a","i","l">>,
                     <<"e","r","r","o","r">>>>
RECURSIVE classify_issues(_)
classify_issues(lines) ==
    IF lines = <<>> THEN <<>>
    ELSE LET line == lines[1]
             hits == [k \in 1..Len(classify_keywords) |->
                        IF Contains(Lower(line), classify_keywords[k])
                        THEN <<<<"D","e","t","e","c","t","e","d"," ">>
                             \o classify_keywords[k] \o <<":"," ">> \o line>>
                        ELSE <<>>]
         IN Flatten(hits) \o classify_issues(Tail(lines))
classify_log_error(lines) ==
    IF classify_issues(lines) = <<>>
                                THEN <<"L","o","g"," ","a","n","a","l","y","s","i","s"," ","d","i","d"," ","n","o","t"," ","r","e","v","e","a","l"," ","a","n","y"," ","e","r","r","o","r","s"," ","o","r"," ","f","a","i","l","u","r","e","s",".">>
    ELSE Join(classify_issues(lines), <<"\n">>)

\* LogAgent.analyze_logs
LogAgent_matching_lines(files, tid) ==
    Flatten([f \in 1..Len(files) |->
        IF EndsWith(files[f].name, <<".","l","o","g">>)
        THEN LET ls == files[f].lines
                 stripped == [i \in 1..Len(ls) |->
                                IF Contains(ls[i], tid) THEN <<Strip(ls[i])>> ELSE <<>>]
             IN Flatten(stripped)
        ELSE <<>>])
analyze_logs(ctx, e) ==
    LET tid == Value(ctx, "task_id").text IN
    IF ~e.log_dir.exists THEN Raise("FileNotFoundError")
    ELSE IF \E f \in 1..Len(e.log_dir.files) :
                EndsWith(e.log_dir.files[f].name, <<".","l","o","g">>) /\ ~e.log_dir.files[f].readable
    THEN Raise("PermissionError")
    ELSE LET matching == LogAgent_matching_lines(e.log_dir.files, tid) IN
         IF matching = <<>>
         THEN [kind |-> "no_entries", text |-> <<"N","o"," ","l","o","g"," ","e","n","t","r","i","e","s"," ","f","o","u","n","d"," ","f","o","r"," ","t","a","s","k"," ">> \o tid \o <<".">>]
         ELSE [kind |-> "summary", text |-> classify_log_error(matching)]

\* CodeAgent.retrieve_relevant_code: the first 500 characters of every .java/.py file
\* whose text contains the task id or any whitespace-separated term of the summary
SnippetChars == 500
CauseChars == 150
retrieve_relevant_code(files, tid, error_summary) ==
    Flatten([f \in 1..Len(files) |->
        IF (EndsWith(files[f].name, <<".","j","a","v","a">>) \/ EndsWith(files[f].name, <<".","p","y">>))
           /\ (Contains(files[f].text, tid)
               \/ \E term \in Range(Split(error_summary)) : Contains(files[f].text, term))
        THEN <<Take(files[f].text, SnippetChars)>>
        ELSE <<>>])
\* CodeAgent.analyze_code with analyze_code_snippets
analyze_code(ctx, e) ==
    LET tid == Value(ctx, "task_id").text
        error_summary == GetText(ctx, "log_summary")
    IN
    IF ~e.codebase.exists THEN Raise("FileNotFoundError")
    ELSE IF \E f \in 1..Len(e.codebase.files) :
                /\ EndsWith(e.codebase.files[f].name, <<".","j","a","v","a">>)
                   \/ EndsWith(e.codebase.files[f].name, <<".","p","y">>)
                /\ ~e.codebase.files[f].readable
    THEN Raise("PermissionError")
    ELSE LET snippets == retrieve_relevant_code(e.codebase.files, tid, error_summary) IN
         IF snippets = <<>>
         THEN [kind |-> "no_snippets"]
         ELSE [kind |-> "code_analysis", snippets |-> snippets,
               cause |-> Take(error_summary, CauseChars)]

\* fetch_task_metrics: connect() is outside the try; a failing query yields None
fetch_task_metrics(db, tid) ==
    IF db.state = "no_dir" THEN Raise("OperationalError")
    ELSE IF db.state = "no_table" THEN [kind |-> "None"]
    ELSE IF \E r \in 1..Len(db.rows) : db.rows[r].task_id = tid
         THEN LET r == CHOOSE k \in 1..Len(db.rows) :
                        /\ db.rows[k].task_id = tid
                        /\ \A m \in 1..(k - 1) : db.rows[m].task_id # tid
              IN [kind |-> "row", start_time |-> db.rows[r].start_time,
                  end_time |-> db.rows[r].end_time, duration |-> db.rows[r].duration]
         ELSE [kind |-> "None"]
\* DatabaseAgent.query_metrics
query_metrics(ctx, e) ==
    LET tid == Value(ctx, "task_id").text
        metrics == fetch_task_metrics(e.metrics_db, tid)
    IN IF metrics.kind = "raise" THEN metrics
       ELSE IF metrics.kind = "None" THEN [kind |-> "no_metrics", task_id |-> tid]
       ELSE [kind |-> "metrics", start_time |-> metrics.start_time,
             end_time |-> metrics.end_time, duration |-> metrics.duration]

\* Series.str.contains(pat, case=False, na=False): pat is searched as a regular
\* expression in which "." stands for any character but a newline; the texts of
\* this model hold no other regular-expression operator.
ReMatchesAt(s, pat, i) ==
    /\ i + Len(pat) <= Len(s)
    /\ \A j \in 1..Len(pat) :
          IF pat[j] = "." THEN s[i + j] # "\n"
          ELSE LowerChar(s[i + j]) = LowerChar(pat[j])
str_contains(s, pat) == \E i \in 0..Len(s) : ReMatchesAt(s, pat, i)

\* df[df['description'].str.contains(pat, case=False, na=False)] : the row numbers kept
RowsContaining(rows, pat) == {r \in 1..Len(rows) : str_contains(rows[r].description, pat)}

\* the rows of `rows` whose numbers are in `idx`, in ledger order
RECURSIVE RowsAt(_, _, _)
RowsAt(rows, idx, from) ==
    IF from > Len(rows) THEN <<>>
    ELSE (IF from \in idx THEN <<rows[from]>> ELSE <<>>) \o RowsAt(rows, idx, from + 1)

SummaryChars == 50
\* search_similar_incidents
search_similar_incidents(ledger, tid, error_summary) ==
    IF ~ledger.exists THEN [kind |-> "lookup_failed", used_keywords |-> FALSE]
    ELSE LET exact == RowsContaining(ledger.rows, tid)
             matched == IF exact = {}
                        THEN RowsContaining(ledger.rows, Take(error_summary, SummaryChars))
                        ELSE exact
         IN IF matched = {}
            THEN [kind |-> "no_incidents", used_keywords |-> exact = {}]
            ELSE [kind |-> "incidents", rows |-> RowsAt(ledger.rows, matched, 1),
                  used_keywords |-> exact = {}]
\* IncidentAgent.search_history
search_history(ctx, e) ==
    search_similar_incidents(e.incidents, Value(ctx, "task_id").text,
                             GetText(ctx, "log_summary"))

TicketChars == 100
\* JiraAgent.create_ticket with create_jira_ticket
create_ticket(ctx, e) ==
    [kind |-> "ticket",
     task |-> Value(ctx, "task_id").text,
     summary |-> Take(GetText(ctx, "log_summary"), TicketChars),
     analysis |-> IF HasKey(ctx, "code_analysis") THEN Value(ctx, "code_analysis").kind
                  ELSE "",
     status |-> "Created (Simulated)"]

\* summarize_response: one part per context key that is present, joined by newlines
ResponseKeys == <<"log_summary", "code_analysis", "db_metrics", "incident_history",
                  "jira_ticket">>
summarize_response(ctx) ==
    [kind |-> "response",
     parts |-> Flatten([k \in 1..Len(ResponseKeys) |->
                  IF HasKey(ctx, ResponseKeys[k])
                  THEN <<<<ResponseKeys[k], Value(ctx, ResponseKeys[k])>>>>
                  ELSE <<>>])]

Text(s) == [kind |-> "text", text |-> s]

\* the five stages in the order handle_query tests them, and the context key each writes
\* (variant that tests the ticket stage first)
Stages_jira_first == <<"jira", "log", "code", "database", "incident">>
Stages == <<"log", "code", "database", "incident", "jira">>
StageKey(s) ==
    CASE s = "log" -> "log_summary"
      [] s = "code" -> "code_analysis"
      [] s = "database" -> "db_metrics"
      [] s = "incident" -> "incident_history"
      [] s = "jira" -> "jira_ticket"
StageIndex(s) == CHOOSE i \in DOMAIN Stages : Stages[i] = s

\* the `if` that guards each agent call in handle_query
StagePlanned(s, agent_plan, ctx) ==
    /\ s \in Range(agent_plan)
    /\ s = "code" => HasKey(ctx, "log_summary")

\* the stage results each agent method takes from the context with context.get
StageReads(s) ==
    CASE s = "log" -> {}
      [] s = "code" -> {"log_summary"}
      [] s = "database" -> {}
      [] s = "incident" -> {"log_summary"}
      [] s = "jira" -> {"log_summary", "code_analysis"}

\* the agent method handle_query calls for a stage
AgentCall(s, ctx, e) ==
    CASE s = "log" -> analyze_logs(ctx, e)
      [] s = "code" -> analyze_code(ctx, e)
      [] s = "database" -> query_metrics(ctx, e)
      [] s = "incident" -> search_history(ctx, e)
      [] s = "jira" -> create_ticket(ctx, e)

----------------------------------------------------------------------------
(* OpsAnalysisOrchestrator / OpsAnalysisCrew / run_ops_analysis: a crew    *)
(* that runs the task list sequentially.                                   *)

\* create_analysis_tasks / create_enhanced_tasks / create_tasks: the task list with
\* each task's declared context (the tasks whose output it is given)
create_analysis_tasks ==
    << [name |-> "log",      context |-> {}],
       [name |-> "code",     context |-> {"log"}],
       [name |-> "database", context |-> {}],
       [name |-> "incident", context |-> {"log", "code"}],
       [name |-> "jira",     context |-> {"log", "code", "database", "incident"}] >>

\* the output a task leaves when its agent's provider call returns
TaskOutput(s, tid, ctx) ==
    [kind |-> IF s = "jira" THEN "ticket" ELSE "task_output",
     task |-> tid,
     narrative |-> "provided",
     given |-> {k \in Keys(ctx) : k \in create_analysis_tasks[StageIndex(s)].context}]

\* the except branch of execute_analysis
AnalysisFailed(s) == [kind |-> "error", text |-> "Analysis failed", at |-> s]

----------------------------------------------------------------------------
(* Inputs of the extraction and pipeline behaviours.                       *)

\* F_TID is the text 'TID'
F_TID == <<"T","I","D">>
\* F_tid is the text 'tid'
F_tid == <<"t","i","d">>
\* F_Tid_dash is the text 'Tid-'
F_Tid_dash == <<"T","i","d","-">>
\* F_dash is the text '-'
F_dash == <<"-">>
\* F_under is the text '_'
F_under == <<"_">>
\* F_1 is the text '1'
F_1 == <<"1">>
\* F_7sp is the text '7 '
F_7sp == <<"7"," ">>
\* F_SLOW is the text 'SLOW'
F_SLOW == <<"S","L","O","W">>
\* F_slo is the text 'slo'
F_slo == <<"s","l","o">>
\* F_w is the text 'w'
F_w == <<"w">>
\* F_Err is the text 'Err'
F_Err == <<"E","r","r">>
\* F_or is the text 'or'
F_or == <<"o","r">>

QueryFragments ==
    {F_TID, F_tid, F_Tid_dash, F_dash, F_under, F_1, F_7sp, F_SLOW, F_slo, F_w, F_Err, F_or}

\* how many fragments an extraction query is made of, at most
MaxFragments == 3

RECURSIVE QueriesOf(_)
QueriesOf(n) ==
    IF n = 0 THEN {<<>>}
    ELSE QueriesOf(n - 1) \cup {q \o f : q \in QueriesOf(n - 1), f \in QueryFragments}

\* Q_fail is the text 'Why is task TID-1 failing?'
Q_fail ==
    << "W", "h", "y", " ", "i", "s", " ", "t", "a", "s", "k", " ", "T", "I", "D", "-", "1",
       " ", "f", "a", "i", "l", "i", "n", "g", "?" >>
\* Q_lower is the text 'tid-1 error, open a ticket'
Q_lower ==
    << "t", "i", "d", "-", "1", " ", "e", "r", "r", "o", "r", ",", " ", "o", "p", "e", "n",
       " ", "a", " ", "t", "i", "c", "k", "e", "t" >>
\* Q_incident is the text 'any incident like this'
Q_incident ==
    << "a", "n", "y", " ", "i", "n", "c", "i", "d", "e", "n", "t", " ", "l", "i", "k", "e",
       " ", "t", "h", "i", "s" >>
\* Q_hello is the text 'hello'
Q_hello == <<"h","e","l","l","o">>
\* Q_all is the text 'TID-1 fail latency incident escalate'
Q_all ==
    << "T", "I", "D", "-", "1", " ", "f", "a", "i", "l", " ", "l", "a", "t", "e", "n", "c",
       "y", " ", "i", "n", "c", "i", "d", "e", "n", "t", " ", "e", "s", "c", "a", "l", "a",
       "t", "e" >>
\* Q_jira is the text 'create Jira'
Q_jira == <<"c","r","e","a","t","e"," ","J","i","r","a">>
\* Q_time is the text 'TID_2 timeout, escalate'
Q_time ==
    << "T", "I", "D", "_", "2", " ", "t", "i", "m", "e", "o", "u", "t", ",", " ", "e", "s",
       "c", "a", "l", "a", "t", "e" >>
\* Q_reverse is the text 'escalate the incident, latency error TID-1'
Q_reverse ==
    << "e", "s", "c", "a", "l", "a", "t", "e", " ", "t", "h", "e", " ", "i", "n", "c", "i",
       "d", "e", "n", "t", ",", " ", "l", "a", "t", "e", "n", "c", "y", " ", "e", "r", "r",
       "o", "r", " ", "T", "I", "D", "-", "1" >>
\* Q_noid is the text 'job error, similar incident?'
Q_noid ==
    << "j", "o", "b", " ", "e", "r", "r", "o", "r", ",", " ", "s", "i", "m", "i", "l", "a",
       "r", " ", "i", "n", "c", "i", "d", "e", "n", "t", "?" >>

PipelineQueries ==
    {Q_fail, Q_lower, Q_incident, Q_hello, Q_all, Q_jira, Q_time, Q_noid, Q_reverse}

\* TID_1 is the text 'TID-1'
TID_1 == <<"T","I","D","-","1">>
\* N_app_log is the text 'app.log'
N_app_log == <<"a","p","p",".","l","o","g">>
\* N_notes_txt is the text 'notes.txt'
N_notes_txt == <<"n","o","t","e","s",".","t","x","t">>
\* N_proc_py is the text 'proc.py'
N_proc_py == <<"p","r","o","c",".","p","y">>
\* N_Main_java is the text 'Main.java'
N_Main_java == <<"M","a","i","n",".","j","a","v","a">>
\* L_failed is the text '  TID-1 failed with exception '
L_failed ==
    << " ", " ", "T", "I", "D", "-", "1", " ", "f", "a", "i", "l", "e", "d", " ", "w", "i",
       "t", "h", " ", "e", "x", "c", "e", "p", "t", "i", "o", "n", " " >>
\* L_other is the text 'TID_2 ok'
L_other == <<"T","I","D","_","2"," ","o","k">>
\* L_unknown is the text 'status UNKNOWN error'
L_unknown == <<"s","t","a","t","u","s"," ","U","N","K","N","O","W","N"," ","e","r","r","o","r">>
\* T_proc is the text 'def run():\n  failed = 1  # TID-1'
T_proc ==
    << "d", "e", "f", " ", "r", "u", "n", "(", ")", ":", "\n", " ", " ", "f", "a", "i", "l",
       "e", "d", " ", "=", " ", "1", " ", " ", "#", " ", "T", "I", "D", "-", "1" >>
\* T_main is the text 'class Main { int a; }'
T_main ==
    << "c", "l", "a", "s", "s", " ", "M", "a", "i", "n", " ", "{", " ", "i", "n", "t", " ",
       "a", ";", " ", "}" >>
\* D_before is the text 'TID-1 failed before'
D_before == <<"T","I","D","-","1"," ","f","a","i","l","e","d"," ","b","e","f","o","r","e">>
\* D_job is the text 'No log entries found for task UNKNOWN, again'
D_job ==
    << "N", "o", " ", "l", "o", "g", " ", "e", "n", "t", "r", "i", "e", "s", " ", "f", "o",
       "u", "n", "d", " ", "f", "o", "r", " ", "t", "a", "s", "k", " ", "U", "N", "K", "N",
       "O", "W", "N", ",", " ", "a", "g", "a", "i", "n" >>

LogDirs ==
    { [exists |-> FALSE],
      [exists |-> TRUE, files |-> <<>>],
      [exists |-> TRUE, files |->
          << [name |-> N_app_log, readable |-> TRUE,
              lines |-> <<L_failed, L_other, L_unknown>>],
             [name |-> N_notes_txt, readable |-> FALSE, lines |-> <<>>] >>],
      [exists |-> TRUE, files |->
          << [name |-> N_app_log, readable |-> FALSE, lines |-> <<>>] >>] }

Codebases ==
    { [exists |-> FALSE],
      [exists |-> TRUE, files |->
          << [name |-> N_proc_py, readable |-> TRUE, text |-> T_proc],
             [name |-> N_Main_java, readable |-> TRUE, text |-> T_main] >>] }

MetricsDbs ==
    { [state |-> "no_dir"],
      [state |-> "no_table"],
      [state |-> "ok", rows |->
          << [task_id |-> TID_1, start_time |-> "t0", end_time |-> "t1",
              duration |-> 5] >>] }

Ledgers ==
    { [exists |-> FALSE],
      [exists |-> TRUE, rows |->
          << [date |-> "d1", description |-> D_before],
             [date |-> "d2", description |-> D_job] >>] }

\* outcomes of the analysis-provider call of each stage
Providers == [Range(Stages) -> {"ok", "fails"}]
AllOk == [s \in Range(Stages) |-> "ok"]

NoStore ==
    [log_dir |-> [exists |-> FALSE], codebase |-> [exists |-> FALSE],
     metrics_db |-> [state |-> "no_dir"], incidents |-> [exists |-> FALSE],
     provider |-> AllOk]

----------------------------------------------------------------------------
(* Extraction behaviour: create_analysis_tasks' first lines applied to a   *)
(* query.                                                                  *)

NoFlags == [is_performance_query |-> FALSE, is_error_query |-> FALSE]

InitExtract ==
    /\ comp = "extract"
    /\ pc = "start"
    /\ stage = "none"
    /\ query \in QueriesOf(MaxFragments)
    /\ task_id = <<>>
    /\ flags = NoFlags
    /\ plan = <<>>
    /\ env = NoStore
    /\ context = <<>>
    /\ result = [kind |-> "none"]

ExtractAndClassify ==
    /\ comp = "extract"
    /\ pc = "start"
    /\ task_id' = extract_task_id(query)
    /\ flags' = [is_performance_query |-> is_performance_query(query),
                 is_error_query |-> is_error_query(query)]
    /\ pc' = "done"
    /\ UNCHANGED <<comp, stage, query, plan, env, context, result>>

----------------------------------------------------------------------------
(* handle_query behaviour.                                                 *)

InitHandleQuery ==
    /\ comp = "handle_query"
    /\ pc = "start"
    /\ stage = "none"
    /\ query \in PipelineQueries
    /\ task_id = <<>>
    /\ flags = NoFlags
    /\ plan = <<>>
    /\ \E l \in LogDirs, c \in Codebases, m \in MetricsDbs, i \in Ledgers :
          env = [log_dir |-> l, codebase |-> c, metrics_db |-> m, incidents |-> i,
                 provider |-> AllOk]
    /\ context = <<>>
    /\ result = [kind |-> "none"]

\* lines 34-35: the context and the plan
HandleQueryBegin ==
    /\ comp = "handle_query"
    /\ pc = "start"
    /\ task_id' = extract_task_id(query)
    /\ context' = << <<"query", Text(query)>>, <<"task_id", Text(extract_task_id(query))>> >>
    /\ plan' = classify_agents_needed(query)
    /\ stage' = Stages[1]
    /\ pc' = "test"
    /\ UNCHANGED <<comp, query, flags, env, result>>

\* one of the five `if` statements of lines 39-52
HandleQueryTest ==
    /\ comp = "handle_query"
    /\ pc = "test"
    /\ IF StagePlanned(stage, plan, context)
       THEN pc' = "running" /\ stage' = stage
       ELSE IF StageIndex(stage) < Len(Stages)
            THEN pc' = "test" /\ stage' = Stages[StageIndex(stage) + 1]
            ELSE pc' = "return" /\ stage' = "none"
    /\ UNCHANGED <<comp, query, task_id, flags, plan, env, context, result>>

\* the agent call of the stage and the assignment of its value to the context;
\* an exception of the agent leaves handle_query
HandleQueryAgent ==
    /\ comp = "handle_query"
    /\ pc = "running"
    /\ LET r == AgentCall(stage, context, env) IN
       IF r.kind = "raise"
       THEN /\ pc' = "raised"
            /\ result' = r
            /\ UNCHANGED <<stage, context>>
       ELSE /\ context' = SetKey(context, StageKey(stage), r)
            /\ result' = result
            /\ IF StageIndex(stage) < Len(Stages)
               THEN pc' = "test" /\ stage' = Stages[StageIndex(stage) + 1]
               ELSE pc' = "return" /\ stage' = "none"
    /\ UNCHANGED <<comp, query, task_id, flags, plan, env>>

\* line 54
HandleQueryReturn ==
    /\ comp = "handle_query"
    /\ pc = "return"
    /\ result' = summarize_response(context)
    /\ pc' = "done"
    /\ UNCHANGED <<comp, stage, query, task_id, flags, plan, env, context>>

----------------------------------------------------------------------------
(* Crew behaviours: execute_analysis (the exception of a task is caught)   *)
(* and run_ops_analysis (it is not).                                       *)

InitCrew ==
    /\ comp \in {"execute_analysis", "run_ops_analysis"}
    /\ pc = "start"
    /\ stage = "none"
    /\ query \in PipelineQueries
    /\ task_id = <<>>
    /\ flags = NoFlags
    /\ plan = <<>>
    /\ \E p \in Providers : env = [NoStore EXCEPT !.provider = p]
    /\ context = <<>>
    /\ result = [kind |-> "none"]

\* task-id extraction, classification and the task list
CrewBegin ==
    /\ comp \in {"execute_analysis", "run_ops_analysis"}
    /\ pc = "start"
    /\ task_id' = extract_task_id(query)
    /\ flags' = [is_performance_query |-> is_performance_query(query),
                 is_error_query |-> is_error_query(query)]
    /\ plan' = [i \in DOMAIN create_analysis_tasks |-> create_analysis_tasks[i].name]
    /\ stage' = create_analysis_tasks[1].name
    /\ pc' = "test"
    /\ UNCHANGED <<comp, query, env, context, result>>

\* Process.sequential: the next task of the list starts
CrewStartTask ==
    /\ comp \in {"execute_analysis", "run_ops_analysis"}
    /\ pc = "test"
    /\ pc' = "running"
    /\ UNCHANGED <<comp, stage, query, task_id, flags, plan, env, context, result>>

\* the task's provider call returns: its output joins the crew's context
CrewFinishTask ==
    /\ comp \in {"execute_analysis", "run_ops_analysis"}
    /\ pc = "running"
    /\ env.provider[stage] = "ok"
    /\ context' = Append(context, <<StageKey(stage), TaskOutput(stage, task_id, context)>>)
    /\ IF StageIndex(stage) < Len(plan)
       THEN pc' = "test" /\ stage' = plan[StageIndex(stage) + 1]
       ELSE pc' = "return" /\ stage' = "none"
    /\ UNCHANGED <<comp, query, task_id, flags, plan, env, result>>

\* the task's provider call fails or times out: kickoff raises
CrewTaskRaises ==
    /\ comp \in {"execute_analysis", "run_ops_analysis"}
    /\ pc = "running"
    /\ env.provider[stage] # "ok"
    /\ IF comp = "execute_analysis"
       THEN pc' = "done" /\ result' = AnalysisFailed(stage)
       ELSE pc' = "raised" /\ result' = Raise("ProviderError")
    /\ UNCHANGED <<comp, stage, query, task_id, flags, plan, env, context>>

\* kickoff returns the output of the last task
CrewReturn ==
    /\ comp \in {"execute_analysis", "run_ops_analysis"}
    /\ pc = "return"
    /\ result' = Value(context, StageKey(plan[Len(plan)]))
    /\ pc' = "done"
    /\ UNCHANGED <<comp, stage, query, task_id, flags, plan, env, context>>

----------------------------------------------------------------------------
(* LogAnalysisTool (tools/log_tools.py).                                   *)

\* the characters of this model's texts in code-point order (str comparison)
CodePoints ==
    <<"\n", " ", "#", "(", ")", ",", "-", ".", "/",
      "0","1","2","3","4","5","6","7","8","9", ":", "=", "?",
      "A","B","C","D","E","F","G","H","I","J","K","L","M",
      "N","O","P","Q","R","S","T","U","V","W","X","Y","Z", "_",
      "a","b","c","d","e","f","g","h","i","j","k","l","m",
      "n","o","p","q","r","s","t","u","v","w","x","y","z", "{", "}">>
Ord(c) == CHOOSE i \in DOMAIN CodePoints : CodePoints[i] = c

\* a < b for two str values
RECURSIVE StrLess(_, _)
StrLess(a, b) ==
    IF b = <<>> THEN FALSE
    ELSE IF a = <<>> THEN TRUE
    ELSE IF a[1] = b[1] THEN StrLess(Tail(a), Tail(b))
    ELSE Ord(a[1]) < Ord(b[1])

\* the regex class \w
WordChars == Range(UpperCase) \cup Range(LowerCase) \cup Digits \cup {"_"}

\* a timestamp pattern matches s at 0-based offset i; in a pattern "d" stands for
\* \d, "w" for \w and every other character for itself
PatternMatchesAt(s, pat, i) ==
    /\ i + Len(pat) <= Len(s)
    /\ \A j \in 1..Len(pat) :
          CASE pat[j] = "d" -> s[i + j] \in Digits
            [] pat[j] = "w" -> s[i + j] \in WordChars
            [] OTHER -> s[i + j] = pat[j]

\* Python's None
None == <<>>

timestamp_patterns == <<<<"d","d","d","d","-","d","d","-","d","d"," ","d","d",":","d","d",":","d","d">>, <<"d","d","/","d","d","/","d","d","d","d"," ","d","d",":","d","d",":","d","d">>, <<"w","w","w"," ","d","d"," ","d","d",":","d","d",":","d","d">>>>

\* re.search(pattern, line).group(0): the leftmost match
PatternSearch(s, pat) ==
    IF \E i \in 0..Len(s) : PatternMatchesAt(s, pat, i)
    THEN LET i == CHOOSE k \in 0..Len(s) :
                    /\ PatternMatchesAt(s, pat, k)
                    /\ \A m \in 0..(k - 1) : ~PatternMatchesAt(s, pat, m)
         IN SubSeq(s, i + 1, i + Len(pat))
    ELSE None

\* _extract_timestamp: the first pattern that matches wins
RECURSIVE extract_timestamp_from(_, _)
extract_timestamp_from(line, k) ==
    IF k > Len(timestamp_patterns) THEN None
    ELSE IF PatternSearch(line, timestamp_patterns[k]) # None
         THEN PatternSearch(line, timestamp_patterns[k])
         ELSE extract_timestamp_from(line, k + 1)
extract_timestamp(line) == extract_timestamp_from(line, 1)

error_keywords ==
    {<<"e","r","r","o","r">>, <<"e","x","c","e","p","t","i","o","n">>, <<"f","a","i","l","e","d">>,
     <<"f","a","i","l","u","r","e">>, <<"t","i","m","e","o","u","t">>,
     <<"n","u","l","l"," ","p","o","i","n","t","e","r">>,
     <<"c","o","n","n","e","c","t","i","o","n"," ","r","e","f","u","s","e","d">>,
     <<"o","u","t"," ","o","f"," ","m","e","m","o","r","y">>,
     <<"s","t","a","c","k"," ","t","r","a","c","e">>, <<"f","a","t","a","l">>,
     <<"c","r","i","t","i","c","a","l">>, <<"a","l","e","r","t">>}

\* _is_error_line
is_error_line(line) == ContainsAny(Lower(line), error_keywords)

\* (variant that tests the database rule before the others)
classify_error_database_first(line) ==
    LET l == Lower(line) IN
    IF Contains(l, <<"d","a","t","a","b","a","s","e">>) \/ Contains(l, <<"s","q","l">>) THEN "DatabaseError"
    ELSE IF Contains(l, <<"n","u","l","l"," ","p","o","i","n","t","e","r">>) \/ Contains(l, <<"n","u","l","l","p","o","i","n","t","e","r","e","x","c","e","p","t","i","o","n">>)
        THEN "NullPointerException"
    ELSE IF Contains(l, <<"t","i","m","e","o","u","t">>) THEN "TimeoutError"
    ELSE IF Contains(l, <<"c","o","n","n","e","c","t","i","o","n">>) /\ (Contains(l, <<"r","e","f","u","s","e","d">>) \/ Contains(l, <<"f","a","i","l","e","d">>))
        THEN "ConnectionError"
    ELSE IF Contains(l, <<"m","e","m","o","r","y">>) THEN "MemoryError"
    ELSE IF Contains(l, <<"s","e","c","u","r","i","t","y">>) \/ Contains(l, <<"u","n","a","u","t","h","o","r","i","z","e","d">>) THEN "SecurityError"
    ELSE "GeneralError"
\* _classify_error
classify_error(line) ==
    LET l == Lower(line) IN
    IF Contains(l, <<"n","u","l","l"," ","p","o","i","n","t","e","r">>) \/ Contains(l, <<"n","u","l","l","p","o","i","n","t","e","r","e","x","c","e","p","t","i","o","n">>)
        THEN "NullPointerException"
    ELSE IF Contains(l, <<"t","i","m","e","o","u","t">>) THEN "TimeoutError"
    ELSE IF Contains(l, <<"c","o","n","n","e","c","t","i","o","n">>) /\ (Contains(l, <<"r","e","f","u","s","e","d">>) \/ Contains(l, <<"f","a","i","l","e","d">>))
        THEN "ConnectionError"
    ELSE IF Contains(l, <<"m","e","m","o","r","y">>) THEN "MemoryError"
    ELSE IF Contains(l, <<"s","e","c","u","r","i","t","y">>) \/ Contains(l, <<"u","n","a","u","t","h","o","r","i","z","e","d">>) THEN "SecurityError"
    ELSE IF Contains(l, <<"d","a","t","a","b","a","s","e">>) \/ Contains(l, <<"s","q","l">>) THEN "DatabaseError"
    ELSE "GeneralError"

\* _determine_severity
determine_severity(line) ==
    LET l == Lower(line) IN
    IF ContainsAny(l, {<<"f","a","t","a","l">>, <<"c","r","i","t","i","c","a","l">>,
                       <<"e","m","e","r","g","e","n","c","y">>}) THEN "CRITICAL"
    ELSE IF ContainsAny(l, {<<"e","r","r","o","r">>, <<"e","x","c","e","p","t","i","o","n">>,
                            <<"f","a","i","l","e","d">>}) THEN "HIGH"
    ELSE IF ContainsAny(l, {<<"w","a","r","n","i","n","g">>, <<"w","a","r","n">>}) THEN "MEDIUM"
    ELSE "LOW"

\* (variant that keeps an error line only when it contains the task id)
LineEntries_task_errors(file_path, line_num, raw, tid, q) ==
    LET line == Strip(raw)
        timestamp == extract_timestamp(line)
        base == [file |-> file_path, line_number |-> line_num, content |-> line,
                 timestamp |-> timestamp, error_type |-> "", severity |-> "",
                 match_type |-> ""]
        is_task == Contains(Lower(line), Lower(tid))
        is_error == is_error_line(line)
        error_entry == [base EXCEPT !.error_type = classify_error(line),
                                    !.severity = determine_severity(line)]
        query_entry == [base EXCEPT !.match_type = "query_match"]
    IN IF line = <<>>
       THEN [task_related |-> <<>>, errors |-> <<>>, timeline |-> <<>>]
       ELSE [task_related |-> IF is_task THEN <<base>> ELSE <<>>,
             errors |-> IF is_error /\ is_task THEN <<error_entry>> ELSE <<>>,
             timeline |-> (IF is_task THEN <<base>> ELSE <<>>)
                          \o (IF is_error /\ is_task THEN <<error_entry>> ELSE <<>>)
                          \o (IF q # <<>> /\ Contains(Lower(line), Lower(q))
                              THEN <<query_entry>> ELSE <<>>)]
\* the entries one line adds to task_related, errors and timeline (lines 86-130)
LineEntries(file_path, line_num, raw, tid, q) ==
    LET line == Strip(raw)
        timestamp == extract_timestamp(line)
        base == [file |-> file_path, line_number |-> line_num, content |-> line,
                 timestamp |-> timestamp, error_type |-> "", severity |-> "",
                 match_type |-> ""]
        is_task == Contains(Lower(line), Lower(tid))
        is_error == is_error_line(line)
        error_entry == [base EXCEPT !.error_type = classify_error(line),
                                    !.severity = determine_severity(line)]
        query_entry == [base EXCEPT !.match_type = "query_match"]
    IN IF line = <<>>
       THEN [task_related |-> <<>>, errors |-> <<>>, timeline |-> <<>>]
       ELSE [task_related |-> IF is_task THEN <<base>> ELSE <<>>,
             errors |-> IF is_error THEN <<error_entry>> ELSE <<>>,
             timeline |-> (IF is_task THEN <<base>> ELSE <<>>)
                          \o (IF is_error /\ is_task THEN <<error_entry>> ELSE <<>>)
                          \o (IF q # <<>> /\ Contains(Lower(line), Lower(q))
                              THEN <<query_entry>> ELSE <<>>)]

\* _parse_log_file: a file that cannot be opened yields no entries
parse_log_file(f, tid, q) ==
    IF ~f.readable
    THEN [task_related |-> <<>>, errors |-> <<>>, timeline |-> <<>>]
    ELSE LET per == [n \in 1..Len(f.lines) |-> LineEntries(f.name, n, f.lines[n], tid, q)]
         IN [task_related |-> Flatten([n \in 1..Len(per) |-> per[n].task_related]),
             errors |-> Flatten([n \in 1..Len(per) |-> per[n].errors]),
             timeline |-> Flatten([n \in 1..Len(per) |-> per[n].timeline])]

\* _find_log_files: the files of the directory, pattern by pattern
log_patterns == <<<<".","l","o","g">>, <<".","t","x","t">>, <<".","o","u","t">>>>
find_log_files(dir) ==
    IF ~dir.exists THEN <<>>
    ELSE Flatten([p \in 1..Len(log_patterns) |->
            Flatten([f \in 1..Len(dir.files) |->
                IF EndsWith(dir.files[f].name, log_patterns[p])
                THEN <<dir.files[f]>> ELSE <<>>])])

\* list.sort(key=...): a stable sort; comparing a key that is None raises TypeError
RECURSIVE InsertByTimestamp(_, _)
InsertByTimestamp(sorted, x) ==
    IF sorted = <<>> THEN <<x>>
    ELSE IF StrLess(x.timestamp, sorted[1].timestamp) THEN <<x>> \o sorted
    ELSE <<sorted[1]>> \o InsertByTimestamp(Tail(sorted), x)
RECURSIVE SortByTimestamp(_)
SortByTimestamp(s) ==
    IF s = <<>> THEN <<>>
    ELSE InsertByTimestamp(SortByTimestamp(SubSeq(s, 1, Len(s) - 1)), s[Len(s)])
SortRaises(s) == Len(s) >= 2 /\ \E i \in DOMAIN s : s[i].timestamp = None

\* the distinct values of field(e) over a list, in first-seen order
RECURSIVE FirstSeen(_, _)
FirstSeen(vals, seen) ==
    IF vals = <<>> THEN <<>>
    ELSE IF vals[1] \in seen THEN FirstSeen(Tail(vals), seen)
    ELSE <<vals[1]>> \o FirstSeen(Tail(vals), seen \cup {vals[1]})

\* a dict of counts in insertion order: <<key, number of occurrences>>
CountsOf(vals) ==
    LET keys == FirstSeen(vals, {})
    IN [k \in 1..Len(keys) |->
            <<keys[k], Cardinality({i \in DOMAIN vals : vals[i] = keys[k]})>>]

\* (variant that puts an item in front of the items of the same count)
RECURSIVE InsertByCountDesc_ties_first(_, _)
InsertByCountDesc_ties_first(sorted, x) ==
    IF sorted = <<>> THEN <<x>>
    ELSE IF x[2] >= sorted[1][2] THEN <<x>> \o sorted
    ELSE <<sorted[1]>> \o InsertByCountDesc_ties_first(Tail(sorted), x)
\* sorted(items, key=count, reverse=True): stable, larger counts first
RECURSIVE InsertByCountDesc(_, _)
InsertByCountDesc(sorted, x) ==
    IF sorted = <<>> THEN <<x>>
    ELSE IF x[2] > sorted[1][2] THEN <<x>> \o sorted
    ELSE <<sorted[1]>> \o InsertByCountDesc(Tail(sorted), x)
RECURSIVE SortByCountDesc(_)
SortByCountDesc(s) ==
    IF s = <<>> THEN <<>>
    ELSE InsertByCountDesc(SortByCountDesc(SubSeq(s, 1, Len(s) - 1)), s[Len(s)])

MostFrequentShown == 5

\* _analyze_error_patterns
analyze_error_patterns(error_entries) ==
    LET distribution ==
            CountsOf([i \in 1..Len(error_entries) |-> error_entries[i].error_type])
    IN [error_distribution |-> distribution,
        most_frequent |-> Take(SortByCountDesc(distribution), MostFrequentShown),
        total_errors |-> Len(error_entries)]

\* (variant that leaves the entries of the default severity out of the count)
analyze_severity_without_low(error_entries) ==
    CountsOf(Flatten([i \in 1..Len(error_entries) |->
        IF error_entries[i].severity = "LOW" THEN <<>>
        ELSE <<error_entries[i].severity>>]))
\* _analyze_severity
analyze_severity(error_entries) ==
    CountsOf([i \in 1..Len(error_entries) |-> error_entries[i].severity])

\* the error entries _run collects from the files (lines 33-43), before the timeline
\* is sorted
all_error_entries(tid, q, dir) ==
    LET log_files == find_log_files(dir)
    IN Flatten([f \in 1..Len(log_files) |-> parse_log_file(log_files[f], tid, q).errors])

\* LogAnalysisTool._run
LogAnalysisTool_run(tid, q, dir) ==
    LET log_files == find_log_files(dir)
        parsed == [f \in 1..Len(log_files) |-> parse_log_file(log_files[f], tid, q)]
        task_entries == Flatten([f \in 1..Len(parsed) |-> parsed[f].task_related])
        error_entries == Flatten([f \in 1..Len(parsed) |-> parsed[f].errors])
        timeline == Flatten([f \in 1..Len(parsed) |-> parsed[f].timeline])
    IN IF log_files = <<>> THEN [kind |-> "no_log_files"]
       ELSE IF SortRaises(timeline) THEN [kind |-> "error", exc |-> "TypeError"]
       ELSE [kind |-> "report",
             task_id |-> tid,
             task_entries |-> task_entries,
             error_entries |-> error_entries,
             timeline |-> SortByTimestamp(timeline),
             error_patterns |-> analyze_error_patterns(error_entries),
             severity_analysis |-> analyze_severity(error_entries)]

\* TID_2 is the text 'TID-2'
TID_2 == <<"T","I","D","-","2">>
\* TID_12345 is the text 'TID-12345'
TID_12345 == <<"T","I","D","-","1","2","3","4","5">>
\* N_b_txt is the text 'b.txt'
N_b_txt == <<"b",".","t","x","t">>
\* N_c_out is the text 'c.out'
N_c_out == <<"c",".","o","u","t">>
\* LA is the text '2024-01-15 10:00:02 ERROR NullPointerException TID-1'
LA ==
    << "2", "0", "2", "4", "-", "0", "1", "-", "1", "5", " ", "1", "0", ":", "0", "0", ":",
       "0", "2", " ", "E", "R", "R", "O", "R", " ", "N", "u", "l", "l", "P", "o", "i", "n",
       "t", "e", "r", "E", "x", "c", "e", "p", "t", "i", "o", "n", " ", "T", "I", "D", "-",
       "1" >>
\* LB is the text '2024-01-15 10:00:01 INFO start tid-1'
LB ==
    << "2", "0", "2", "4", "-", "0", "1", "-", "1", "5", " ", "1", "0", ":", "0", "0", ":",
       "0", "1", " ", "I", "N", "F", "O", " ", "s", "t", "a", "r", "t", " ", "t", "i", "d",
       "-", "1" >>
\* LC is the text 'TID-1 retry'
LC == <<"T","I","D","-","1"," ","r","e","t","r","y">>
\* LD is the text '01/15/2024 09:00:00 FATAL error out of memory'
LD ==
    << "0", "1", "/", "1", "5", "/", "2", "0", "2", "4", " ", "0", "9", ":", "0", "0", ":",
       "0", "0", " ", "F", "A", "T", "A", "L", " ", "e", "r", "r", "o", "r", " ", "o", "u",
       "t", " ", "o", "f", " ", "m", "e", "m", "o", "r", "y" >>
\* LE is the text 'Jan 15 07:00:00 TID-2 sql timeout'
LE ==
    << "J", "a", "n", " ", "1", "5", " ", "0", "7", ":", "0", "0", ":", "0", "0", " ", "T",
       "I", "D", "-", "2", " ", "s", "q", "l", " ", "t", "i", "m", "e", "o", "u", "t" >>
\* LF is the text '   '
LF == <<" "," "," ">>
\* LG is the text 'ERROR TaskProcessor NullPointerException TID-12345'
LG ==
    << "E", "R", "R", "O", "R", " ", "T", "a", "s", "k", "P", "r", "o", "c", "e", "s", "s",
       "o", "r", " ", "N", "u", "l", "l", "P", "o", "i", "n", "t", "e", "r", "E", "x", "c",
       "e", "p", "t", "i", "o", "n", " ", "T", "I", "D", "-", "1", "2", "3", "4", "5" >>
\* N_d_log is the text 'd.log'
N_d_log == <<"d",".","l","o","g">>
\* LH is the text 'connection refused'
LH == <<"c","o","n","n","e","c","t","i","o","n"," ","r","e","f","u","s","e","d">>
\* LI is the text 'alert unauthorized'
LI == <<"a","l","e","r","t"," ","u","n","a","u","t","h","o","r","i","z","e","d">>
\* LJ is the text 'database failure'
LJ == <<"d","a","t","a","b","a","s","e"," ","f","a","i","l","u","r","e">>
\* LK is the text 'fatal'
LK == <<"f","a","t","a","l">>
\* LQ_retry is the text 'retry'
LQ_retry == <<"r","e","t","r","y">>

SampleLogLines == {LA, LB, LC, LD, LE, LG}

\* how many lines the first log file holds, at most
MaxLogLines == 2

RECURSIVE SeqsUpTo(_, _)
SeqsUpTo(S, n) ==
    IF n = 0 THEN {<<>>}
    ELSE SeqsUpTo(S, n - 1) \cup {Append(s, x) : s \in SeqsUpTo(S, n - 1), x \in S}

\* the other files of the log directory
OtherLogFiles ==
    { <<>>,
      << [name |-> N_b_txt, readable |-> TRUE, lines |-> <<LD, LF, LB>>] >>,
      << [name |-> N_c_out, readable |-> FALSE, lines |-> <<>>],
         [name |-> N_d_log, readable |-> TRUE, lines |-> <<LH, LI, LJ, LK, LK>>] >> }

\* the task ids the log tool is run for
LogTaskIds == {TID_1, TID_2, TID_12345}

InitLogTool ==
    /\ comp = "log_tool"
    /\ pc = "start"
    /\ stage = "none"
    /\ query \in {<<>>, LQ_retry}
    /\ task_id \in LogTaskIds
    /\ flags = NoFlags
    /\ plan = <<>>
    /\ \E ls \in SeqsUpTo(SampleLogLines, MaxLogLines), others \in OtherLogFiles :
          env = [NoStore EXCEPT !.log_dir =
                    [exists |-> TRUE,
                     files |-> others \o
                               <<[name |-> N_app_log, readable |-> TRUE, lines |-> ls]>>]]
    /\ context = <<>>
    /\ result = [kind |-> "none"]

\* the log stage's tool call: _run with the error entries it collects on the way
LogToolRun ==
    /\ comp = "log_tool"
    /\ pc = "start"
    /\ result' = LogAnalysisTool_run(task_id, query, env.log_dir)
    /\ context' =
          IF find_log_files(env.log_dir) = <<>> THEN <<>>
          ELSE << <<"all_error_entries",
                    all_error_entries(task_id, query, env.log_dir)>> >>
    /\ pc' = "done"
    /\ UNCHANGED <<comp, stage, query, task_id, flags, plan, env>>

----------------------------------------------------------------------------
(* CodeAnalysisTool (tools/code_tools.py).                                 *)

code_extensions == <<<<".","p","y">>, <<".","j","a","v","a">>, <<".","j","s">>,
                   <<".","c","p","p">>, <<".","c">>, <<".","g","o">>, <<".","r","b">>,
                   <<".","p","h","p">>>>

\* _find_code_files: the files of the directory, extension by extension
find_code_files(dir) ==
    IF ~dir.exists THEN <<>>
    ELSE Flatten([x \in 1..Len(code_extensions) |->
            Flatten([f \in 1..Len(dir.files) |->
                IF EndsWith(dir.files[f].name, code_extensions[x])
                THEN <<dir.files[f]>> ELSE <<>>])])

MaxLineLength == 120
LongLinePreview == 100
MaxParameters == 7

Issue(file_path, line_num, severity, type, code) ==
    [file |-> file_path, line |-> line_num, severity |-> severity, type |-> type,
     code |-> code]

\* s.startswith(w)
StartsWith(s, w) == MatchesAt(s, w, 0)

\* _check_line_issues: every check is tried on the (stripped) line
check_line_issues(line, file_path, line_num) ==
    LET l == Lower(line)
        code == Strip(line)
    IN [general |->
            (IF ContainsAny(line, {<<".","g","e","t","(">>, <<".","f","e","t","c","h","(">>,
                                   <<".","f","i","n","d","(">>})
                /\ ~Contains(l, <<"n","u","l","l">>) /\ ~Contains(l, <<"n","o","n","e">>)
             THEN <<Issue(file_path, line_num, "HIGH", "NullPointerRisk", code)>>
             ELSE <<>>)
            \o (IF ContainsAny(l, {<<"c","o","n","n","e","c","t","i","o","n","(">>,
                                   <<"o","p","e","n","(">>, <<"s","t","r","e","a","m","(">>})
                   /\ ~Contains(l, <<"c","l","o","s","e","(",")">>) /\ ~Contains(l, <<"w","i","t","h">>)
                THEN <<Issue(file_path, line_num, "MEDIUM", "ResourceLeak", code)>>
                ELSE <<>>),
        security |->
            (IF ContainsAny(l, {<<"s","q","l">>, <<"q","u","e","r","y">>,
                                <<"e","x","e","c","u","t","e">>})
                /\ ContainsAny(l, {<<"i","n","p","u","t">>, <<"r","e","q","u","e","s","t">>,
                                   <<"p","a","r","a","m">>})
             THEN <<Issue(file_path, line_num, "CRITICAL", "SQLInjection", code)>>
             ELSE <<>>)
            \o (IF ContainsAny(l, {<<"p","a","s","s","w","o","r","d">>,
                                   <<"a","p","i","k","e","y">>, <<"s","e","c","r","e","t">>,
                                   <<"t","o","k","e","n">>})
                   /\ Contains(line, <<"=">>)
                   /\ (Contains(line, <<"\"">>) \/ Contains(line, <<"'">>))
                THEN <<Issue(file_path, line_num, "HIGH", "HardcodedCredential", code)>>
                ELSE <<>>),
        performance |->
            (IF ContainsAny(l, {<<"s","l","e","e","p","(">>,
                                <<"t","h","r","e","a","d",".","s","l","e","e","p">>,
                                <<"t","i","m","e",".","s","l","e","e","p">>})
             THEN <<Issue(file_path, line_num, "MEDIUM", "PerformanceBlock", code)>>
             ELSE <<>>)
            \o (IF StartsWith(Strip(l), <<"f","o","r"," ">>) /\ Contains(line, <<" "," "," "," ","f","o","r"," ">>)
                THEN <<Issue(file_path, line_num, "MEDIUM", "NestedLoop", code)>>
                ELSE <<>>),
        code_smells |->
            (IF Len(Strip(line)) > MaxLineLength
             THEN <<Issue(file_path, line_num, "LOW", "LongLine",
                          Take(code, LongLinePreview) \o <<".",".",".">>)>>
             ELSE <<>>)
            \o (IF Contains(l, <<"t","o","d","o">>) \/ Contains(l, <<"f","i","x","m","e">>)
                THEN <<Issue(file_path, line_num, "LOW", "TodoComment", code)>>
                ELSE <<>>)]

\* _analyze_python_file: f.ast is what ast.parse(content) and the walk of its tree
\* yield: a SyntaxError, another exception, or the function definitions and the
\* except handlers of the tree in walk order
analyze_python_file(f) ==
    IF f.ast.kind = "SyntaxError"
    THEN [issues |-> <<Issue(f.name, f.ast.lineno, "CRITICAL", "SyntaxError", <<>>)>>,
          security_issues |-> <<>>, performance_issues |-> <<>>, code_smells |-> <<>>]
    ELSE IF f.ast.kind = "Exception"
    THEN [issues |-> <<>>, security_issues |-> <<>>, performance_issues |-> <<>>,
          code_smells |-> <<>>]
    ELSE [issues |-> Flatten([h \in 1..Len(f.ast.handlers) |->
                        IF f.ast.handlers[h].bare
                        THEN <<Issue(f.name, f.ast.handlers[h].lineno, "MEDIUM",
                                     "BareExcept", <<>>)>>
                        ELSE <<>>]),
          security_issues |-> <<>>,
          performance_issues |-> <<>>,
          code_smells |-> Flatten([d \in 1..Len(f.ast.functions) |->
                        IF f.ast.functions[d].nargs > MaxParameters
                        THEN <<Issue(f.name, f.ast.functions[d].lineno, "MEDIUM",
                                     "TooManyParameters", <<>>)>>
                        ELSE <<>>])]

\* _analyze_java_file
analyze_java_file(f) ==
    LET content == Join(f.lines, <<"\n">>) IN
    [issues |-> Flatten([n \in 1..Len(f.lines) |->
        (IF Contains(f.lines[n], <<".","g","e","t","(">>) /\ ~Contains(Lower(f.lines[n]), <<"n","u","l","l">>)
         THEN <<Issue(f.name, n, "HIGH", "JavaNullPointer", Strip(f.lines[n]))>>
         ELSE <<>>)
        \o (IF ContainsAny(f.lines[n], {<<"n","e","w"," ","F","i","l","e","I","n","p","u","t","S","t","r","e","a","m">>, <<"n","e","w"," ","C","o","n","n","e","c","t","i","o","n">>, <<"n","e","w"," ","S","o","c","k","e","t">>})
               /\ ~Contains(content, <<"t","r","y","-","w","i","t","h","-","r","e","s","o","u","r","c","e","s">>) /\ ~Contains(content, <<"f","i","n","a","l","l","y">>)
            THEN <<Issue(f.name, n, "MEDIUM", "JavaResourceLeak", Strip(f.lines[n]))>>
            ELSE <<>>)]),
     security_issues |-> <<>>, performance_issues |-> <<>>, code_smells |-> <<>>]

\* the per-line part of _analyze_file (lines 86-98)
analyze_lines(f, tid) ==
    LET per == [n \in 1..Len(f.lines) |-> check_line_issues(Strip(f.lines[n]), f.name, n)]
    IN [issues |-> Flatten([n \in 1..Len(per) |-> per[n].general]),
        security_issues |-> Flatten([n \in 1..Len(per) |-> per[n].security]),
        performance_issues |-> Flatten([n \in 1..Len(per) |-> per[n].performance]),
        code_smells |-> Flatten([n \in 1..Len(per) |-> per[n].code_smells]),
        task_related |-> tid # <<>>
                         /\ Contains(Lower(Join(f.lines, <<"\n">>)), Lower(tid))]

\* dict.update: the four lists of `more` replace those of `analysis`
Update(analysis, more) ==
    [analysis EXCEPT !.issues = more.issues,
                     !.security_issues = more.security_issues,
                     !.performance_issues = more.performance_issues,
                     !.code_smells = more.code_smells]

\* (variant that appends the lists of the language pass to the per-line lists)
Extend(analysis, more) ==
    [analysis EXCEPT !.issues = @ \o more.issues,
                     !.security_issues = @ \o more.security_issues,
                     !.performance_issues = @ \o more.performance_issues,
                     !.code_smells = @ \o more.code_smells]

\* (variant of _analyze_file that extends the per-line lists by the language pass)
analyze_file_extending(f, tid) ==
    IF ~f.readable
    THEN [issues |-> <<Issue(f.name, 0, "LOW", "AnalysisError", <<>>)>>,
          security_issues |-> <<>>, performance_issues |-> <<>>, code_smells |-> <<>>,
          task_related |-> FALSE]
    ELSE IF EndsWith(f.name, <<".","p","y">>)
         THEN Extend(analyze_lines(f, tid), analyze_python_file(f))
    ELSE IF EndsWith(f.name, <<".","j","a","v","a">>)
         THEN Extend(analyze_lines(f, tid), analyze_java_file(f))
    ELSE analyze_lines(f, tid)
\* _analyze_file
analyze_file(f, tid) ==
    IF ~f.readable
    THEN [issues |-> <<Issue(f.name, 0, "LOW", "AnalysisError", <<>>)>>,
          security_issues |-> <<>>, performance_issues |-> <<>>, code_smells |-> <<>>,
          task_related |-> FALSE]
    ELSE IF EndsWith(f.name, <<".","p","y">>)
         THEN Update(analyze_lines(f, tid), analyze_python_file(f))
    ELSE IF EndsWith(f.name, <<".","j","a","v","a">>)
         THEN Update(analyze_lines(f, tid), analyze_java_file(f))
    ELSE analyze_lines(f, tid)

\* the analysis_results dict of _run (lines 33-50)
analysis_results(tid, dir) ==
    LET code_files == find_code_files(dir)
        per == [f \in 1..Len(code_files) |-> analyze_file(code_files[f], tid)]
    IN [files_analyzed |-> Len(code_files),
        issues |-> Flatten([f \in 1..Len(per) |-> per[f].issues]),
        security_issues |-> Flatten([f \in 1..Len(per) |-> per[f].security_issues]),
        performance_issues |-> Flatten([f \in 1..Len(per) |-> per[f].performance_issues]),
        code_smells |-> Flatten([f \in 1..Len(per) |-> per[f].code_smells]),
        task_related_files |-> Flatten([f \in 1..Len(per) |->
            IF per[f].task_related THEN <<code_files[f].name>> ELSE <<>>])]

Severities == <<"CRITICAL", "HIGH", "MEDIUM", "LOW">>

\* the numbers _generate_code_report writes into the report text
generate_code_report(tid, results) ==
    LET all_issues == results.issues \o results.security_issues
                      \o results.performance_issues \o results.code_smells
    IN [task_id |-> tid,
        files_analyzed |-> results.files_analyzed,
        task_related_files |-> Len(results.task_related_files),
        total_issues |-> Len(results.issues) + Len(results.security_issues)
                         + Len(results.performance_issues) + Len(results.code_smells),
        severity_counts |-> [s \in 1..Len(Severities) |->
            <<Severities[s],
              Cardinality({i \in DOMAIN all_issues : all_issues[i].severity = Severities[s]})>>],
        general |-> Len(results.issues),
        security |-> Len(results.security_issues),
        performance |-> Len(results.performance_issues),
        smells |-> Len(results.code_smells)]

\* the value _run returns: the report function ends without a return statement
CodeAnalysisTool_run(tid, dir) ==
    IF find_code_files(dir) = <<>> THEN [kind |-> "no_code_files"]
    ELSE [kind |-> "None"]

\* N_a_py is the text 'a.py'
N_a_py == <<"a",".","p","y">>
\* N_b_py is the text 'b.py'
N_b_py == <<"b",".","p","y">>
\* N_lib_js is the text 'lib.js'
N_lib_js == <<"l","i","b",".","j","s">>
\* N_gone_rb is the text 'gone.rb'
N_gone_rb == <<"g","o","n","e",".","r","b">>
\* CL_get is the text 'x = d.get(k)'
CL_get == <<"x"," ","="," ","d",".","g","e","t","(","k",")">>
\* CL_sql is the text 'cur.execute(sql + request)'
CL_sql ==
    << "c", "u", "r", ".", "e", "x", "e", "c", "u", "t", "e", "(", "s", "q", "l", " ", "+",
       " ", "r", "e", "q", "u", "e", "s", "t", ")" >>
\* CL_sleep is the text 'time.sleep(1)  # TODO TID-1'
CL_sleep ==
    << "t", "i", "m", "e", ".", "s", "l", "e", "e", "p", "(", "1", ")", " ", " ", "#", " ",
       "T", "O", "D", "O", " ", "T", "I", "D", "-", "1" >>
\* CL_bad is the text 'v = d.get(k))'
CL_bad == <<"v"," ","="," ","d",".","g","e","t","(","k",")",")">>
\* CL_def8 is the text 'def f(a, b, c, d, e, g, h, i): pass'
CL_def8 ==
    << "d", "e", "f", " ", "f", "(", "a", ",", " ", "b", ",", " ", "c", ",", " ", "d", ",",
       " ", "e", ",", " ", "g", ",", " ", "h", ",", " ", "i", ")", ":", " ", "p", "a", "s",
       "s" >>
\* CL_try is the text 'try:'
CL_try == <<"t","r","y",":">>
\* CL_find is the text '  v = m.find(k)'
CL_find == <<" "," ","v"," ","="," ","m",".","f","i","n","d","(","k",")">>
\* CL_except is the text 'except:'
CL_except == <<"e","x","c","e","p","t",":">>
\* CL_pass is the text '  pass'
CL_pass == <<" "," ","p","a","s","s">>
\* CL_socket is the text 's = new Socket(h)'
CL_socket == <<"s"," ","="," ","n","e","w"," ","S","o","c","k","e","t","(","h",")">>
\* CL_java_get is the text 'v = m.get(k)  // tid-1'
CL_java_get ==
    << "v", " ", "=", " ", "m", ".", "g", "e", "t", "(", "k", ")", " ", " ", "/", "/", " ",
       "t", "i", "d", "-", "1" >>
\* CL_password is the text 'password = 'abc''
CL_password == <<"p","a","s","s","w","o","r","d"," ","="," ","'","a","b","c","'">>
\* CQ_todo is the text 'TODO cleanup'
CQ_todo == <<"T","O","D","O"," ","c","l","e","a","n","u","p">>
\* CL_nested is the text 'for x in a:    for y in b:'
CL_nested ==
    << "f", "o", "r", " ", "x", " ", "i", "n", " ", "a", ":", " ", " ", " ", " ", "f", "o",
       "r", " ", "y", " ", "i", "n", " ", "b", ":" >>

\* a line of MaxLineLength + 1 digits
CL_long == [i \in 1..(MaxLineLength + 1) |-> "1"]

SampleCodeLines == {CL_get, CL_sql, CL_sleep, CL_bad, CL_def8}

\* how many lines the file a.py holds, at most
MaxCodeLines == 2

NoAst == [kind |-> "none", lineno |-> 0, functions |-> <<>>, handlers |-> <<>>]

\* what ast.parse and ast.walk yield for a file made of sample lines: CL_bad is the
\* one line that is not a Python statement, CL_def8 the one function definition
ParseSampleLines(lines) ==
    IF \E n \in 1..Len(lines) : lines[n] = CL_bad
    THEN [kind |-> "SyntaxError",
          lineno |-> CHOOSE n \in 1..Len(lines) :
                        lines[n] = CL_bad /\ \A m \in 1..(n - 1) : lines[m] # CL_bad,
          functions |-> <<>>, handlers |-> <<>>]
    ELSE [kind |-> "ok", lineno |-> 0,
          functions |-> Flatten([n \in 1..Len(lines) |->
                IF lines[n] = CL_def8 THEN <<[lineno |-> n, nargs |-> 8]>> ELSE <<>>]),
          handlers |-> <<>>]

\* the other files of the code directory
OtherCodeFiles ==
    { <<>>,
      << [name |-> N_b_py, readable |-> TRUE,
          lines |-> <<CL_try, CL_find, CL_except, CL_pass>>,
          ast |-> [kind |-> "ok", lineno |-> 0, functions |-> <<>>,
                   handlers |-> <<[lineno |-> 3, bare |-> TRUE]>>]] >>,
      << [name |-> N_gone_rb, readable |-> FALSE, lines |-> <<>>, ast |-> NoAst],
         [name |-> N_lib_js, readable |-> TRUE,
          lines |-> <<CL_long, CL_nested, CL_password>>, ast |-> NoAst],
         [name |-> N_Main_java, readable |-> TRUE,
          lines |-> <<CL_socket, CL_java_get>>, ast |-> NoAst] >> }

InitCodeTool ==
    /\ comp = "code_tool"
    /\ pc = "start"
    /\ stage = "none"
    /\ query \in {<<>>, CQ_todo}
    /\ task_id \in {TID_1, TID_2}
    /\ flags = NoFlags
    /\ plan = <<>>
    /\ \E ls \in SeqsUpTo(SampleCodeLines, MaxCodeLines), others \in OtherCodeFiles :
          env = [NoStore EXCEPT !.codebase =
                    [exists |-> TRUE,
                     files |-> others \o
                               <<[name |-> N_a_py, readable |-> TRUE, lines |-> ls,
                                  ast |-> ParseSampleLines(ls)]>>]]
    /\ context = <<>>
    /\ result = [kind |-> "none"]

\* the code stage's tool call: _run with the values it builds on the way
CodeToolRun ==
    /\ comp = "code_tool"
    /\ pc = "start"
    /\ result' = CodeAnalysisTool_run(task_id, env.codebase)
    /\ context' =
          IF find_code_files(env.codebase) = <<>> THEN <<>>
          ELSE << <<"analysis_results", analysis_results(task_id, env.codebase)>>,
                  <<"report", generate_code_report(task_id,
                                   analysis_results(task_id, env.codebase))>> >>
    /\ pc' = "done"
    /\ UNCHANGED <<comp, stage, query, task_id, flags, plan, env>>

----------------------------------------------------------------------------
(* IncidentHistoryTool (multi_agent_ops_ai.py) and search_similar_incidents *)
(* (tools/incident_tools.py) over the incident ledger data/incidents.csv.   *)

\* DataFrame.drop_duplicates: rows equal in every column are kept once, the first
RECURSIVE DropDuplicates(_)
DropDuplicates(rows) ==
    IF rows = <<>> THEN <<>>
    ELSE LET front == DropDuplicates(SubSeq(rows, 1, Len(rows) - 1))
             last == rows[Len(rows)]
         IN IF \E i \in DOMAIN front : front[i] = last THEN front
            ELSE Append(front, last)

\* df[df['description'].str.contains(pat, case=False, na=False)]
Matching(rows, pat) == RowsAt(rows, RowsContaining(rows, pat), 1)

MinSummaryLen == 10
MaxKeywords == 5
MinKeywordLen == 3
IncidentsShown == 5

\* the context_match frame after the keywords ks (lines 164-170)
RECURSIVE ContextMatch(_, _)
ContextMatch(rows, ks) ==
    IF ks = <<>> THEN <<>>
    ELSE LET before == ContextMatch(rows, SubSeq(ks, 1, Len(ks) - 1))
             keyword == ks[Len(ks)]
         IN IF Len(keyword) > MinKeywordLen
            THEN DropDuplicates(before \o Matching(rows, keyword))
            ELSE before

\* IncidentHistoryTool._run
IncidentHistoryTool_run(ledger, tid, error_summary) ==
    IF ~ledger.exists THEN [kind |-> "file_not_found"]
    ELSE LET exact_match == Matching(ledger.rows, tid)
             context_match ==
                 IF error_summary # <<>> /\ Len(error_summary) > MinSummaryLen
                 THEN ContextMatch(ledger.rows,
                                   Take(Split(Lower(error_summary)), MaxKeywords))
                 ELSE <<>>
             all_matches == DropDuplicates(exact_match \o context_match)
         IN IF all_matches = <<>> THEN [kind |-> "no_incidents"]
            ELSE [kind |-> "incidents",
                  found |-> Len(all_matches),
                  rows |-> Take(all_matches, IncidentsShown)]

\* D_tid1_timeout is the text 'TID-1 job failed after database timeout'
D_tid1_timeout ==
    << "T", "I", "D", "-", "1", " ", "j", "o", "b", " ", "f", "a", "i", "l", "e", "d", " ",
       "a", "f", "t", "e", "r", " ", "d", "a", "t", "a", "b", "a", "s", "e", " ", "t", "i",
       "m", "e", "o", "u", "t" >>
\* D_nightly is the text 'Database Timeout on nightly load'
D_nightly ==
    << "D", "a", "t", "a", "b", "a", "s", "e", " ", "T", "i", "m", "e", "o", "u", "t", " ",
       "o", "n", " ", "n", "i", "g", "h", "t", "l", "y", " ", "l", "o", "a", "d" >>
\* D_tid1_lower is the text 'tid-1 retry storm'
D_tid1_lower == <<"t","i","d","-","1"," ","r","e","t","r","y"," ","s","t","o","r","m">>
\* D_disk is the text 'disk full'
D_disk == <<"d","i","s","k"," ","f","u","l","l">>
\* S_timeout is the text 'timeout in database connection'
S_timeout ==
    << "t", "i", "m", "e", "o", "u", "t", " ", "i", "n", " ", "d", "a", "t", "a", "b", "a",
       "s", "e", " ", "c", "o", "n", "n", "e", "c", "t", "i", "o", "n" >>
\* S_short is the text 'disk full'
S_short == <<"d","i","s","k"," ","f","u","l","l">>

SampleIncidents ==
    { [date |-> "d1", description |-> D_tid1_timeout],
      [date |-> "d2", description |-> D_nightly],
      [date |-> "d3", description |-> D_tid1_lower],
      [date |-> "d4", description |-> D_disk] }

\* how many records the ledger holds, at most
MaxLedgerRows == 3

InitIncident ==
    /\ comp = "incident_tool"
    /\ pc = "start"
    /\ stage = "none"
    /\ query \in {<<>>, S_timeout, S_short}
    /\ task_id \in {TID_1, TID_2}
    /\ flags = NoFlags
    /\ plan = <<>>
    /\ \E ledger \in {[exists |-> FALSE]}
                     \cup {[exists |-> TRUE, rows |-> rs] :
                              rs \in SeqsUpTo(SampleIncidents, MaxLedgerRows)} :
          env = [NoStore EXCEPT !.incidents = ledger]
    /\ context = <<>>
    /\ result = [kind |-> "none"]

\* the incident stage's tool call; `query` holds the error summary handed to it
IncidentHistoryToolRun ==
    /\ comp = "incident_tool"
    /\ pc = "start"
    /\ result' = IncidentHistoryTool_run(env.incidents, task_id, query)
    /\ pc' = "done"
    /\ stage' = "IncidentHistoryTool"
    /\ UNCHANGED <<comp, query, task_id, flags, plan, env, context>>

\* the incident agent's lookup; `query` holds the error summary handed to it
SearchSimilarIncidents ==
    /\ comp = "incident_tool"
    /\ pc = "start"
    /\ result' = search_similar_incidents(env.incidents, task_id, query)
    /\ pc' = "done"
    /\ stage' = "search_similar_incidents"
    /\ UNCHANGED <<comp, query, task_id, flags, plan, env, context>>

----------------------------------------------------------------------------
(* DatabaseMetricsTool and JiraTicketTool (multi_agent_ops_ai.py), next to  *)
(* fetch_task_metrics (tools/db_tools.py), over the store data/metrics.db.  *)

\* DatabaseMetricsTool._run: the store is "no_dir" when data/metrics.db does not
\* exist, "no_table" when the query fails; the field duration of a row is the
\* column the query selects as the duration
DatabaseMetricsTool_run(db, tid) ==
    IF db.state = "no_dir" THEN [kind |-> "database_not_found"]
    ELSE IF db.state = "no_table" THEN [kind |-> "query_failed"]
    ELSE IF \E r \in 1..Len(db.rows) : db.rows[r].task_id = tid
         THEN LET r == CHOOSE k \in 1..Len(db.rows) :
                        /\ db.rows[k].task_id = tid
                        /\ \A m \in 1..(k - 1) : db.rows[m].task_id # tid
              IN [kind |-> "metrics", row |-> db.rows[r]]
         ELSE [kind |-> "no_metrics", task_id |-> tid]

\* str.replace(old, ""): every occurrence of old is removed, left to right
RECURSIVE Remove(_, _)
Remove(s, old) ==
    IF s = <<>> THEN <<>>
    ELSE IF MatchesAt(s, old, 0) THEN Remove(SubSeq(s, Len(old) + 1, Len(s)), old)
    ELSE <<s[1]>> \o Remove(Tail(s), old)

TicketSummaryShown == 200
TicketDetailsShown == 1000

\* JiraTicketTool._run: the fields of the ticket text (the dates left out)
JiraTicketTool_run(tid, summary, details) ==
    [kind |-> "ticket",
     ticket_id |-> Remove(tid, <<"T","I","D","-">>),
     task |-> tid,
     priority |-> "HIGH",
     assignee |-> "DevOps Team",
     labels |-> Lower(tid),
     summary |-> Take(summary, TicketSummaryShown),
     details |-> Take(details, TicketDetailsShown),
     status |-> "OPEN"]

\* S_npe is the text 'NullPointerException in TaskProcessor'
S_npe ==
    << "N", "u", "l", "l", "P", "o", "i", "n", "t", "e", "r", "E", "x", "c", "e", "p", "t",
       "i", "o", "n", " ", "i", "n", " ", "T", "a", "s", "k", "P", "r", "o", "c", "e", "s",
       "s", "o", "r" >>
\* S_nothing is the text 'no data'
S_nothing == <<"n","o"," ","d","a","t","a">>

SampleMetrics ==
    { [task_id |-> TID_1, start_time |-> "t0", end_time |-> "t1", duration |-> 5,
       status |-> "FAILED", cpu_usage |-> 95, memory_usage |-> 512, error_count |-> 0],
      [task_id |-> TID_1, start_time |-> "t2", end_time |-> "t3", duration |-> 400,
       status |-> "SUCCESS", cpu_usage |-> 10, memory_usage |-> 64, error_count |-> 0],
      [task_id |-> TID_2, start_time |-> "t4", end_time |-> "t5", duration |-> 30,
       status |-> "SUCCESS", cpu_usage |-> 60, memory_usage |-> 128, error_count |-> 3] }

\* how many records the metrics store holds, at most
MaxMetricsRows == 2

MetricsStores ==
    { [state |-> "no_dir"], [state |-> "no_table"] }
    \cup { [state |-> "ok", rows |-> rs] : rs \in SeqsUpTo(SampleMetrics, MaxMetricsRows) }

InitMetrics ==
    /\ comp = "metrics_tool"
    /\ pc = "start"
    /\ stage = "none"
    /\ query = <<>>
    /\ task_id \in {TID_1, TID_2, UNKNOWN}
    /\ flags = NoFlags
    /\ plan = <<>>
    /\ \E db \in MetricsStores : env = [NoStore EXCEPT !.metrics_db = db]
    /\ context = <<>>
    /\ result = [kind |-> "none"]

\* the metrics stage's tool call
DatabaseMetricsToolRun ==
    /\ comp = "metrics_tool"
    /\ pc = "start"
    /\ result' = DatabaseMetricsTool_run(env.metrics_db, task_id)
    /\ pc' = "done"
    /\ stage' = "DatabaseMetricsTool"
    /\ UNCHANGED <<comp, query, task_id, flags, plan, env, context>>

\* the database agent's lookup
FetchTaskMetrics ==
    /\ comp = "metrics_tool"
    /\ pc = "start"
    /\ result' = fetch_task_metrics(env.metrics_db, task_id)
    /\ pc' = "done"
    /\ stage' = "fetch_task_metrics"
    /\ UNCHANGED <<comp, query, task_id, flags, plan, env, context>>

\* the ticket stage's tool call; the summary and the details the agent hands to the
\* tool are held in the context
InitTicket ==
    /\ comp = "ticket_tool"
    /\ pc = "start"
    /\ stage = "none"
    /\ query = <<>>
    /\ task_id \in {TID_1, UNKNOWN}
    /\ flags = NoFlags
    /\ plan = <<>>
    /\ \E db \in MetricsStores : env = [NoStore EXCEPT !.metrics_db = db]
    /\ \E s \in {S_npe, S_nothing}, d \in {S_timeout, S_nothing} :
          context = << <<"summary", s>>, <<"details", d>> >>
    /\ result = [kind |-> "none"]

JiraTicketToolRun ==
    /\ comp = "ticket_tool"
    /\ pc = "start"
    /\ result' = JiraTicketTool_run(task_id, Value(context, "summary"),
                                    Value(context, "details"))
    /\ pc' = "done"
    /\ UNCHANGED <<comp, stage, query, task_id, flags, plan, env, context>>

----------------------------------------------------------------------------
(* AnalysisUtils.generate_recommendations (multi_agent_ops_ai.py) and       *)
(* _generate_executive_summary (agents/orchestrator_agent.py).              *)

\* str({"result": result}) for a text without quotes, backslashes and control
\* characters
DictStr(text) == <<"{","'","r","e","s","u","l","t","'",":"," ","'">> \o text \o <<"'","}">>

Recommendation(trigger, advice) == [trigger |-> trigger, advice |-> advice]

\* generate_recommendations({"result": results})
generate_recommendations(results) ==
    LET text == Lower(DictStr(results)) IN
    (IF Contains(text, <<"n","u","l","l","p","o","i","n","t","e","r">>)
     THEN <<Recommendation("nullpointer", "add null checks")>> ELSE <<>>)
    \o (IF Contains(text, <<"t","i","m","e","o","u","t">>)
        THEN <<Recommendation("timeout", "increase timeout configurations"),
               Recommendation("timeout", "implement retry mechanisms")>>
        ELSE <<>>)
    \o (IF Contains(text, <<"m","e","m","o","r","y">>)
        THEN <<Recommendation("memory", "investigate memory leaks")>> ELSE <<>>)
    \o (IF Contains(text, <<"d","a","t","a","b","a","s","e">>)
        THEN <<Recommendation("database", "review connection pool settings"),
               Recommendation("database", "add database performance monitoring")>>
        ELSE <<>>)

RecommendationsShown == 3

\* _generate_executive_summary: the status line, the key findings and the
\* recommendations of the summary
generate_executive_summary(text, tid) ==
    LET result_lower == Lower(text)
        recommendations == generate_recommendations(text)
    IN [kind |-> "summary",
        task_id |-> tid,
        status |-> IF Contains(result_lower, <<"f","a","i","l","e","d">>) \/ Contains(result_lower, <<"e","r","r","o","r">>)
                   THEN "CRITICAL"
                   ELSE IF Contains(result_lower, <<"w","a","r","n","i","n","g">>) THEN "WARNING" ELSE "OK",
        key_findings |->
            (IF Contains(result_lower, <<"n","u","l","l","p","o","i","n","t","e","r">>) THEN <<"nullpointer">> ELSE <<>>)
            \o (IF Contains(result_lower, <<"t","i","m","e","o","u","t">>) THEN <<"timeout">>
                                          ELSE <<>>)
            \o (IF Contains(result_lower, <<"m","e","m","o","r","y">>) THEN <<"memory">> ELSE <<>>),
        recommendations |-> recommendations,
        top_recommendations |-> Take(recommendations, RecommendationsShown)]

\* W_npe is the text 'NullPointerException'
W_npe == <<"N","u","l","l","P","o","i","n","t","e","r","E","x","c","e","p","t","i","o","n">>
\* W_timeout is the text 'Timeout'
W_timeout == <<"T","i","m","e","o","u","t">>
\* W_memory is the text 'OutOfMemoryError'
W_memory == <<"O","u","t","O","f","M","e","m","o","r","y","E","r","r","o","r">>
\* W_database is the text 'database'
W_database == <<"d","a","t","a","b","a","s","e">>
\* W_warning is the text 'warning'
W_warning == <<"w","a","r","n","i","n","g">>
\* W_fine is the text 'fine'
W_fine == <<"f","i","n","e">>
\* W_space is the text ' '
W_space == <<" ">>

SampleWords == {W_npe, W_timeout, W_memory, W_database, W_warning, W_fine}

\* how many words the analysis text holds, at most
MaxWords == 3

\* the analysis text is held in `query`
InitSummary ==
    /\ comp = "summary"
    /\ pc = "start"
    /\ stage = "none"
    /\ \E ws \in SeqsUpTo(SampleWords, MaxWords) : query = Join(ws, W_space)
    /\ task_id \in {TID_1, UNKNOWN}
    /\ flags = NoFlags
    /\ plan = <<>>
    /\ env = NoStore
    /\ context = <<>>
    /\ result = [kind |-> "none"]

GenerateExecutiveSummary ==
    /\ comp = "summary"
    /\ pc = "start"
    /\ result' = generate_executive_summary(query, task_id)
    /\ pc' = "done"
    /\ UNCHANGED <<comp, stage, query, task_id, flags, plan, env, context>>

----------------------------------------------------------------------------
(* AnalysisUtils.calculate_severity (multi_agent_ops_ai.py).               *)

\* (variant whose thresholds belong to the higher class)
calculate_severity_inclusive(error_count, duration, cpu_usage) ==
    IF error_count >= 5 \/ cpu_usage >= 90 THEN "CRITICAL"
    ELSE IF error_count >= 2 \/ cpu_usage >= 70
            \/ duration >= 300 THEN "HIGH"
    ELSE IF error_count >= 0 \/ cpu_usage >= 50 THEN "MEDIUM"
    ELSE "LOW"
\* (variant whose duration test is the other way round)
calculate_severity_short_duration(error_count, duration, cpu_usage) ==
    IF error_count > 5 \/ cpu_usage > 90 THEN "CRITICAL"
    ELSE IF error_count > 2 \/ cpu_usage > 70
            \/ duration < 300 THEN "HIGH"
    ELSE IF error_count > 0 \/ cpu_usage > 50 THEN "MEDIUM"
    ELSE "LOW"
\* calculate_severity
calculate_severity(error_count, duration, cpu_usage) ==
    IF error_count > 5 \/ cpu_usage > 90 THEN "CRITICAL"
    ELSE IF error_count > 2 \/ cpu_usage > 70
            \/ duration > 300 THEN "HIGH"
    ELSE IF error_count > 0 \/ cpu_usage > 50 THEN "MEDIUM"
    ELSE "LOW"

\* the metrics the function is applied to: every threshold, its two neighbours and
\* values far from it
ErrorCounts == {0, 1, 2, 3, 5, 6}
Durations == {0, 299, 300, 301}
CpuUsages == {0, 50, 51, 70, 71, 90, 91}

InitSeverity ==
    /\ comp = "severity"
    /\ pc = "start"
    /\ stage = "none"
    /\ query = <<>>
    /\ task_id = <<>>
    /\ flags = NoFlags
    /\ plan = <<>>
    /\ env = NoStore
    /\ \E e \in ErrorCounts, d \in Durations, c \in CpuUsages :
          context = << <<"error_count", e>>, <<"duration", d>>, <<"cpu_usage", c>> >>
    /\ result = [kind |-> "none"]

CalculateSeverity ==
    /\ comp = "severity"
    /\ pc = "start"
    /\ result' = [kind |-> "severity",
                  severity |-> calculate_severity(Value(context, "error_count"),
                                                  Value(context, "duration"),
                                                  Value(context, "cpu_usage"))]
    /\ pc' = "done"
    /\ UNCHANGED <<comp, stage, query, task_id, flags, plan, env, context>>

----------------------------------------------------------------------------
Init == InitExtract \/ InitHandleQuery \/ InitCrew \/ InitLogTool \/ InitCodeTool \/ InitIncident
           \/ InitMetrics \/ InitTicket \/ InitSummary \/ InitSeverity

Next ==
    \/ ExtractAndClassify
    \/ HandleQueryBegin \/ HandleQueryTest \/ HandleQueryAgent \/ HandleQueryReturn
    \/ LogToolRun \/ CodeToolRun \/ IncidentHistoryToolRun \/ SearchSimilarIncidents
    \/ DatabaseMetricsToolRun \/ FetchTaskMetrics \/ JiraTicketToolRun
    \/ GenerateExecutiveSummary \/ CalculateSeverity
    \/ CrewBegin \/ CrewStartTask \/ CrewFinishTask \/ CrewTaskRaises \/ CrewReturn

Spec == Init /\ [][Next]_vars

----------------------------------------------------------------------------
(* Properties.                                                             *)

\* str.upper(), used to state a pattern match that ignores letter case
Upper(s) ==
    [i \in 1..Len(s) |->
        IF \E k \in DOMAIN LowerCase : LowerCase[k] = s[i]
        THEN UpperCase[CHOOSE k \in DOMAIN LowerCase : LowerCase[k] = s[i]]
        ELSE s[i]]

\* the query holds a match of TID[-_]?\d+ when letter case is ignored
HasTidIgnoringCase(q) == \E i \in 0..Len(q) : TidMatchLen(Upper(q), i) > 0

\* the leftmost match of TID[-_]?\d+ in q when letter case is ignored
FirstTidIgnoringCase(q) ==
    LET i == CHOOSE k \in 0..Len(q) :
                /\ TidMatchLen(Upper(q), k) > 0
                /\ \A m \in 0..(k - 1) : TidMatchLen(Upper(q), m) = 0
    IN SubSeq(q, i + 1, i + TidMatchLen(Upper(q), i))

Pipelines == {"handle_query", "execute_analysis", "run_ops_analysis"}
Terminated == pc \in {"done", "raised"}

\* the declared predecessors of a stage
Predecessors(s) == create_analysis_tasks[StageIndex(s)].context

\* C1: no stage starts before all of its declared predecessors have completed:
\* whenever a stage is running, every predecessor (log for code; log and code for
\* incident; log, code, database and incident for the ticket stage) has written
\* its result.
C1_StagesAfterPredecessors ==
    (comp \in Pipelines /\ pc = "running")
        => \A p \in Predecessors(stage) : HasKey(context, StageKey(p))

\* C2: the entry point never lets an exception out, and what it returns is a
\* Ticket produced by the ticket stage, never an error value or an empty response.
C2_AlwaysReturnsTicket ==
    (comp \in {"handle_query", "execute_analysis"})
        => /\ pc # "raised"
           /\ pc = "done" =>
                /\ HasKey(context, "jira_ticket")
                /\ result.kind # "error"
                /\ IF comp = "handle_query"
                   THEN \E i \in DOMAIN result.parts : result.parts[i][1] = "jira_ticket"
                   ELSE result.kind = "ticket"

\* C3: when the provider call of a stage fails, the run still ends with every
\* stage executed, and the failed stage's entry carries the "unavailable"
\* placeholder as its narrative.
C3_ProviderFailureDegrades ==
    (comp \in {"execute_analysis", "run_ops_analysis"} /\ Terminated)
        => \A i \in DOMAIN Stages :
              /\ HasKey(context, StageKey(Stages[i]))
              /\ env.provider[Stages[i]] = "fails"
                    => Value(context, StageKey(Stages[i])).narrative = "unavailable"

NotFoundKinds == {"no_entries", "no_snippets", "no_metrics", "no_incidents"}

\* C4: for a query without a TID pattern the task id is "UNKNOWN", no lookup stage
\* raises, and each lookup stage that ran returned a not-found/empty result.
C4_UnknownLookupsNotFound ==
    (comp = "handle_query" /\ pc # "start" /\ ~HasTidIgnoringCase(query))
        => /\ task_id = UNKNOWN
           /\ pc # "raised"
           /\ \A i \in 1..4 :
                 HasKey(context, StageKey(Stages[i]))
                    => Value(context, StageKey(Stages[i])).kind \in NotFoundKinds

\* C5: extraction returns the first match of TID[-_]?\d+ ignoring letter case, so a
\* token written in lower or mixed case is extracted and the result is not "UNKNOWN".
C5_ExtractionIgnoresCase ==
    (comp = "extract" /\ pc = "done" /\ HasTidIgnoringCase(query))
        => /\ task_id = FirstTidIgnoringCase(query)
           /\ task_id # UNKNOWN

\* C6: isPerformance holds exactly when the lower-cased query contains one of slow,
\* latency, performance, timeout, isError exactly when it contains one of fail,
\* error, exception, crash; and the flags of a query are those of its lower-cased
\* form, so two queries that differ only in letter case get the same flags.
C6_ClassificationIgnoresCase ==
    (comp = "extract" /\ pc = "done")
        => /\ flags.is_performance_query
                = (\E w \in {<<"s","l","o","w">>, <<"l","a","t","e","n","c","y">>,
                             <<"p","e","r","f","o","r","m","a","n","c","e">>,
                             <<"t","i","m","e","o","u","t">>} :
                      \E i \in 0..Len(query) : MatchesAt(Lower(query), w, i))
           /\ flags.is_error_query
                = (\E w \in {<<"f","a","i","l">>, <<"e","r","r","o","r">>,
                             <<"e","x","c","e","p","t","i","o","n">>, <<"c","r","a","s","h">>} :
                      \E i \in 0..Len(query) : MatchesAt(Lower(query), w, i))
           /\ flags.is_performance_query = is_performance_query(Lower(query))
           /\ flags.is_performance_query = is_performance_query(Upper(query))
           /\ flags.is_error_query = is_error_query(Lower(query))
           /\ flags.is_error_query = is_error_query(Upper(query))

\* a query with upper-case letters that is classified as a performance and as an
\* error query
C6_Witness ==
    /\ comp = "extract" /\ pc = "done"
    /\ query # Lower(query)
    /\ flags.is_performance_query
    /\ flags.is_error_query

\* sum of the counts of a dict of counts
RECURSIVE SumCounts(_)
SumCounts(counts) == IF counts = <<>> THEN 0 ELSE counts[1][2] + SumCounts(Tail(counts))

\* the timeline is ordered by timestamp ascending, entries without timestamp last
TimelineOrdered(tl) ==
    \A i, j \in DOMAIN tl :
        i < j => /\ tl[i].timestamp = None => tl[j].timestamp = None
                 /\ (tl[i].timestamp # None /\ tl[j].timestamp # None)
                        => ~StrLess(tl[j].timestamp, tl[i].timestamp)

\* the log files hold a task-related line that carries no timestamp
HasUntimedTaskLine ==
    \E f \in DOMAIN env.log_dir.files :
        /\ env.log_dir.files[f].readable
        /\ \E n \in DOMAIN env.log_dir.files[f].lines :
              LET line == Strip(env.log_dir.files[f].lines[n]) IN
              /\ Contains(Lower(line), Lower(task_id))
              /\ \A k \in DOMAIN timestamp_patterns :
                    \A i \in 0..Len(line) : ~PatternMatchesAt(line, timestamp_patterns[k], i)

\* C7: the log timeline is ordered by timestamp ascending with the entries that
\* have no timestamp last, and an untimed entry does not make the log stage fail:
\* the run always ends with a report whose timeline is so ordered.
C7_TimelineOrderedUntimedLast ==
    (comp = "log_tool" /\ pc = "done")
        => /\ result.kind # "error"
           /\ result.kind = "report" => TimelineOrdered(result.timeline)

\* C8: in every stage that reports a severity histogram (the log stage and the code
\* stage), the counts of the histogram add up to the total number of errors /
\* issues the same report states.
C8_SeverityCountsSumToTotal ==
    /\ (comp = "log_tool" /\ pc = "done" /\ result.kind = "report")
          => SumCounts(result.severity_analysis) = result.error_patterns.total_errors
    /\ (comp = "code_tool" /\ pc = "done" /\ HasKey(context, "report"))
          => SumCounts(Value(context, "report").severity_counts)
                = Value(context, "report").total_issues

\* a log report that counts errors of at least two severities, LOW among them
C8_Witness ==
    /\ comp = "log_tool" /\ pc = "done" /\ result.kind = "report"
    /\ result.error_patterns.total_errors >= 2
    /\ Len(result.severity_analysis) >= 2
    /\ \E i \in DOMAIN result.error_entries : result.error_entries[i].severity = "LOW"

\* the code directory without its file number k
WithoutFile(dir, k) ==
    [dir EXCEPT !.files = SubSeq(@, 1, k - 1) \o SubSeq(@, k + 1, Len(@))]

\* the issues of a list that are about the file `name` / about the other files
OfFile(issues, name) == SelectSeq(issues, LAMBDA i : i.file = name)
OfOtherFiles(issues, name) == SelectSeq(issues, LAMBDA i : i.file # name)

\* a Python file whose text ast.parse rejects
Malformed(f) == f.readable /\ EndsWith(f.name, <<".","p","y">>) /\ f.ast.kind = "SyntaxError"

AllIssues(r) == r.issues \o r.security_issues \o r.performance_issues \o r.code_smells

LedgerHasTaskIdMatch ==
    env.incidents.exists /\ RowsContaining(env.incidents.rows, task_id) # {}

\* C9: the keyword pass of the incident search runs only when the pass on the task
\* identifier finds nothing: when the ledger holds records whose description
\* contains the task identifier, every record of the result is one of them.
C9_KeywordPassOnlyWhenNoTaskIdMatch ==
    (comp = "incident_tool" /\ pc = "done" /\ LedgerHasTaskIdMatch)
        => /\ result.kind = "incidents"
           /\ \A i \in DOMAIN result.rows : str_contains(result.rows[i].description, task_id)

\* the severity the severity rule gives a line: the first match of
\* fatal/critical/emergency, error/exception/failed, warning/warn
SeverityByRule(line) ==
    LET l == Lower(line) IN
    IF \E w \in {<<"f","a","t","a","l">>, <<"c","r","i","t","i","c","a","l">>,
                 <<"e","m","e","r","g","e","n","c","y">>} : Contains(l, w) THEN "CRITICAL"
    ELSE IF \E w \in {<<"e","r","r","o","r">>, <<"e","x","c","e","p","t","i","o","n">>,
                      <<"f","a","i","l","e","d">>} : Contains(l, w) THEN "HIGH"
    ELSE IF \E w \in {<<"w","a","r","n","i","n","g">>,
                      <<"w","a","r","n">>} : Contains(l, w) THEN "MEDIUM"
    ELSE "LOW"

\* the ordered list of error types, and the test of each type's rule on a line
ErrorTypeOrder ==
    <<"NullPointerException", "TimeoutError", "ConnectionError", "MemoryError",
      "SecurityError", "DatabaseError">>
ErrorTypeRule(type, line) ==
    LET l == Lower(line) IN
    CASE type = "NullPointerException" ->
            Contains(l, <<"n","u","l","l"," ","p","o","i","n","t","e","r">>) \/ Contains(l, <<"n","u","l","l","p","o","i","n","t","e","r","e","x","c","e","p","t","i","o","n">>)
      [] type = "TimeoutError" -> Contains(l, <<"t","i","m","e","o","u","t">>)
      [] type = "ConnectionError" ->
            Contains(l, <<"c","o","n","n","e","c","t","i","o","n">>) /\ (Contains(l, <<"r","e","f","u","s","e","d">>) \/ Contains(l, <<"f","a","i","l","e","d">>))
      [] type = "MemoryError" -> Contains(l, <<"m","e","m","o","r","y">>)
      [] type = "SecurityError" -> Contains(l, <<"s","e","c","u","r","i","t","y">>) \/ Contains(l, <<"u","n","a","u","t","h","o","r","i","z","e","d">>)
      [] type = "DatabaseError" -> Contains(l, <<"d","a","t","a","b","a","s","e">>) \/ Contains(l, <<"s","q","l">>)

\* the type of the first rule of the list that matches, GeneralError when none does
ErrorTypeByRule(line) ==
    LET matching == {k \in DOMAIN ErrorTypeOrder : ErrorTypeRule(ErrorTypeOrder[k], line)}
    IN IF matching = {} THEN "GeneralError"
       ELSE ErrorTypeOrder[CHOOSE k \in matching : \A m \in matching : k <= m]

\* the collected error entries that stand for line n of file `name`
ErrorEntriesFor(name, n) ==
    LET entries == Value(context, "all_error_entries")
    IN {i \in DOMAIN entries : entries[i].file = name /\ entries[i].line_number = n}

CpuAboveNinety ==
    /\ env.metrics_db.state = "ok"
    /\ \E r \in DOMAIN env.metrics_db.rows :
          env.metrics_db.rows[r].task_id = task_id /\ env.metrics_db.rows[r].cpu_usage > 90

\* no store holds anything
StoresEmpty ==
    /\ ~env.log_dir.exists /\ ~env.codebase.exists /\ ~env.incidents.exists
    /\ env.metrics_db.state = "ok" => env.metrics_db.rows = <<>>

\* C12: the priority written on the ticket follows the priority rule: CRITICAL when
\* the metrics record of the task has a CPU usage above 90 %, LOW when the query
\* names no task and every store is empty.
C12_TicketPriorityDerived ==
    (comp = "ticket_tool" /\ pc = "done")
        => /\ CpuAboveNinety => result.priority = "CRITICAL"
           /\ (task_id = UNKNOWN /\ StoresEmpty) => result.priority = "LOW"

\* the metrics store cannot be queried
StoreFails == env.metrics_db.state # "ok"

\* C18: the metrics lookup tells its outcomes apart and raises nothing: a task
\* without record gets the explicit not-found value, a store that cannot be queried
\* gets a lookup-failed value that is not the not-found value.
C18_MetricsOutcomesDistinguished ==
    (comp = "metrics_tool" /\ pc = "done")
        => /\ result.kind # "raise"
           /\ (~StoreFails /\ \A r \in DOMAIN env.metrics_db.rows :
                                  env.metrics_db.rows[r].task_id # task_id)
                 => result.kind \in {"no_metrics", "None"}
           /\ StoreFails => result.kind \notin {"no_metrics", "None", "metrics", "row"}

\* C13: the context of handle_query is append-only during one query: a step either
\* leaves it alone, or creates it with the query and the task id, or appends one
\* key that was not present, the key of the stage that runs; no entry present
\* before is changed, moved or removed.
C13_ContextAppendOnly ==
    [][comp = "handle_query"
          => \/ context' = context
             \/ /\ pc = "start"
                /\ context = <<>>
                /\ Len(context') = 2
             \/ /\ pc = "running"
                /\ ~HasKey(context, StageKey(stage))
                /\ Len(context') = Len(context) + 1
                /\ SubSeq(context', 1, Len(context)) = context
                /\ context'[Len(context')][1] = StageKey(stage)]_vars

\* a query for which three stages have written their keys, one after the other
C13_Witness ==
    /\ comp = "handle_query" /\ pc = "done"
    /\ Len(context) >= 5
    /\ \A i, j \in DOMAIN context : i # j => context[i][1] # context[j][1]

\* C14: no stage reads a context key that is not present yet: whenever the code, the
\* incident or the ticket stage runs, the stage results it reads from the context
\* have been written.
C14_NoReadOfAbsentKey ==
    (comp = "handle_query" /\ pc = "running") => StageReads(stage) \subseteq Keys(context)

\* C15: the timeline of the log report holds each (file, line number) pair at most
\* once: a task-related line that is also an error line is a single entry.
C15_TimelineWithoutDuplicates ==
    (comp = "log_tool" /\ pc = "done" /\ result.kind = "report")
        => \A i, j \in DOMAIN result.timeline :
              (/\ result.timeline[i].file = result.timeline[j].file
               /\ result.timeline[i].line_number = result.timeline[j].line_number)
                 => i = j

\* the issue x is one of the list
IsIn(x, list) == \E i \in DOMAIN list : list[i] = x

\* C16: every per-line check that fires on a line of a file of a tracked extension,
\* .py and .java files included, contributes its issue to the result of the code
\* analysis; the language pass does not remove it.
C16_LineIssuesKept ==
    (comp = "code_tool" /\ pc = "done" /\ HasKey(context, "analysis_results"))
        => \A f \in DOMAIN env.codebase.files :
              LET file == env.codebase.files[f]
                  found == analyze_lines(file, task_id)
                  kept == Value(context, "analysis_results")
              IN file.readable
                    => /\ \A i \in DOMAIN found.issues : IsIn(found.issues[i], kept.issues)
                       /\ \A i \in DOMAIN found.security_issues :
                             IsIn(found.security_issues[i], kept.security_issues)
                       /\ \A i \in DOMAIN found.performance_issues :
                             IsIn(found.performance_issues[i], kept.performance_issues)
                       /\ \A i \in DOMAIN found.code_smells :
                             IsIn(found.code_smells[i], kept.code_smells)

TriggerOrder == <<"nullpointer", "timeout", "memory", "database">>
TriggerIndex(t) == CHOOSE k \in DOMAIN TriggerOrder : TriggerOrder[k] = t

\* C17: the recommendations hold at most one recommendation per trigger term, in
\* the order of the trigger list, so at most four, and the summary shows the first
\* three of them.
C17_OneRecommendationPerTrigger ==
    (comp = "summary" /\ pc = "done")
        => LET recs == result.recommendations IN
           /\ Len(recs) <= 4
           /\ \A i, j \in DOMAIN recs :
                 i < j => TriggerIndex(recs[i].trigger) < TriggerIndex(recs[j].trigger)
           /\ result.top_recommendations = SubSeq(recs, 1, IF Len(recs) < 3 THEN Len(recs) ELSE 3)

\* C19: a file that the language pass cannot parse is recorded as a single issue of
\* severity LOW for that file.
C19_MalformedFileIsLow ==
    (comp = "code_tool" /\ pc = "done" /\ HasKey(context, "analysis_results"))
        => \A k \in DOMAIN env.codebase.files :
              Malformed(env.codebase.files[k])
                 => LET recorded == OfFile(AllIssues(Value(context, "analysis_results")),
                                           env.codebase.files[k].name)
                    IN /\ Len(recorded) = 1
                       /\ \A i \in DOMAIN recorded : recorded[i].severity = "LOW"

\* some line of a readable log file that the run finds contains the task identifier
SomeTaskLine ==
    \E f \in DOMAIN find_log_files(env.log_dir) :
        LET file == find_log_files(env.log_dir)[f] IN
        /\ file.readable
        /\ \E n \in DOMAIN file.lines : Contains(Lower(Strip(file.lines[n])), Lower(task_id))

\* C20: the log engine returns an explicit no-entries result, neither an error nor
\* a populated report, when there is no log source and when no line of the log
\* sources contains the task identifier.
C20_NoEntriesResult ==
    (comp = "log_tool" /\ pc = "done" /\ ~SomeTaskLine)
        => result.kind \in {"no_log_files", "no_entries"}

\* C21: every entry of the timeline of a log report is a line whose content contains
\* the task identifier, whatever its case; a line that only matches the query or
\* only holds an error keyword is not on the timeline.
C21_TimelineOnlyTaskLines ==
    (comp = "log_tool" /\ pc = "done" /\ result.kind = "report")
        => \A i \in DOMAIN result.timeline :
              /\ Contains(Lower(result.timeline[i].content), Lower(task_id))
              /\ result.timeline[i].match_type # "query_match"

\* the severity classes from the highest down, and the test each one makes
SeverityClasses == <<"CRITICAL", "HIGH", "MEDIUM", "LOW">>
ClassMatches(class, e, d, c) ==
    CASE class = "CRITICAL" -> e > 5 \/ c > 90
      [] class = "HIGH" -> e > 2 \/ c > 70 \/ d > 300
      [] class = "MEDIUM" -> e > 0 \/ c > 50
      [] class = "LOW" -> TRUE
FirstMatchingClass(e, d, c) ==
    SeverityClasses[CHOOSE k \in DOMAIN SeverityClasses :
                        /\ ClassMatches(SeverityClasses[k], e, d, c)
                        /\ \A m \in 1..(k - 1) : ~ClassMatches(SeverityClasses[m], e, d, c)]

SeverityDone == comp = "severity" /\ pc = "done"
InErrorCount == Value(context, "error_count")
InDuration == Value(context, "duration")
InCpuUsage == Value(context, "cpu_usage")

\* C22: the severity calculated from (error count, duration, cpu) is the first
\* matching class of CRITICAL (errors > 5 or cpu > 90), HIGH (errors > 2 or cpu > 70
\* or duration > 300), MEDIUM (errors > 0 or cpu > 50), LOW; a triple that stands on
\* the thresholds 5/90, 2/70/300, 0/50 is in the lower class.
C22_SeverityFirstMatchingClass ==
    SeverityDone =>
        /\ result.severity = FirstMatchingClass(InErrorCount, InDuration, InCpuUsage)
        /\ (InErrorCount <= 5 /\ InCpuUsage <= 90) => result.severity # "CRITICAL"
        /\ (InErrorCount <= 2 /\ InCpuUsage <= 70 /\ InDuration <= 300)
              => result.severity \in {"MEDIUM", "LOW"}
        /\ (InErrorCount <= 0 /\ InCpuUsage <= 50 /\ InDuration <= 300)
              => result.severity = "LOW"

\* the triple (5, 300, 90): every value on a threshold
C22_Witness ==
    /\ SeverityDone
    /\ InErrorCount = 5 /\ InDuration = 300 /\ InCpuUsage = 90
    /\ result.severity = "HIGH"

Rank(severity) == CHOOSE k \in 1..4 : <<"LOW", "MEDIUM", "HIGH", "CRITICAL">>[k] = severity

\* C29: raising one of error count, duration and cpu usage and keeping the other two
\* never lowers the calculated severity in the order LOW < MEDIUM < HIGH < CRITICAL.
C29_SeverityMonotonic ==
    SeverityDone =>
        /\ \A e \in ErrorCounts : e >= InErrorCount =>
              Rank(calculate_severity(e, InDuration, InCpuUsage)) >= Rank(result.severity)
        /\ \A d \in Durations : d >= InDuration =>
              Rank(calculate_severity(InErrorCount, d, InCpuUsage)) >= Rank(result.severity)
        /\ \A c \in CpuUsages : c >= InCpuUsage =>
              Rank(calculate_severity(InErrorCount, InDuration, c)) >= Rank(result.severity)

\* a triple of severity LOW for which a longer duration alone gives HIGH
C29_Witness ==
    /\ SeverityDone
    /\ result.severity = "LOW"
    /\ InDuration = 300
    /\ calculate_severity(InErrorCount, 301, InCpuUsage) = "HIGH"

\* the records rs stand in ledger in the same order: each one at a later place of the
\* ledger than the one before it
InLedgerOrder(rs, ledger) ==
    \E f \in [DOMAIN rs -> DOMAIN ledger] :
        /\ \A i \in DOMAIN rs : ledger[f[i]] = rs[i]
        /\ \A i, j \in DOMAIN rs : i < j => f[i] < f[j]

\* C23: the incident search returns at most 5 records, in the order in which they
\* stand in the ledger.
C23_AtMostFiveInLedgerOrder ==
    (comp = "incident_tool" /\ pc = "done" /\ result.kind = "incidents")
        => /\ Len(result.rows) <= 5
           /\ InLedgerOrder(result.rows, env.incidents.rows)

\* the text of a code file and the summary share a whitespace-separated token of
\* more than 3 characters
SharesLongToken(text, summary) ==
    \E token \in Range(Split(summary)) : Len(token) > 3 /\ token \in Range(Split(text))

\* C24: a code file is listed as task-related exactly when its text contains the
\* task identifier or shares a token longer than 3 characters with the summary text
\* handed to the analysis.
C24_TaskRelatedByIdOrToken ==
    (comp = "code_tool" /\ pc = "done" /\ HasKey(context, "analysis_results"))
        => \A k \in DOMAIN env.codebase.files :
              LET file == env.codebase.files[k]
                  text == Join(file.lines, <<"\n">>)
                  listed == \E i \in DOMAIN Value(context, "analysis_results").task_related_files :
                               Value(context, "analysis_results").task_related_files[i] = file.name
              IN file.readable =>
                    (listed <=> (Contains(Lower(text), Lower(task_id))
                                 \/ SharesLongToken(text, query)))

\* the number of error entries of a type, and the place of the first of them
TypeCount(entries, type) == Cardinality({i \in DOMAIN entries : entries[i].error_type = type})
FirstSeenAt(entries, type) ==
    CHOOSE i \in DOMAIN entries :
        /\ entries[i].error_type = type
        /\ \A j \in 1..(i - 1) : entries[j].error_type # type
\* type a stands before type b in the ranking: more frequent, or as frequent and seen
\* first
RanksBefore(entries, a, b) ==
    \/ TypeCount(entries, a) > TypeCount(entries, b)
    \/ /\ TypeCount(entries, a) = TypeCount(entries, b)
       /\ FirstSeenAt(entries, a) < FirstSeenAt(entries, b)
TypesOf(entries) == {entries[i].error_type : i \in DOMAIN entries}

\* C25: the most-frequent list of a log report holds at most 5 error types with their
\* frequencies, the most frequent first and, of two equally frequent types, the one
\* seen first in the input first; a type that is left out ranks after every type of
\* the list.
C25_MostFrequentTopFive ==
    (comp = "log_tool" /\ pc = "done" /\ result.kind = "report")
        => LET most_frequent == result.error_patterns.most_frequent
               entries == result.error_entries
               shown == {most_frequent[i][1] : i \in DOMAIN most_frequent}
           IN /\ Len(most_frequent) <= 5
              /\ Len(most_frequent) = IF Cardinality(TypesOf(entries)) < 5
                                      THEN Cardinality(TypesOf(entries)) ELSE 5
              /\ \A i \in DOMAIN most_frequent :
                    /\ most_frequent[i][1] \in TypesOf(entries)
                    /\ most_frequent[i][2] = TypeCount(entries, most_frequent[i][1])
              /\ \A i, j \in DOMAIN most_frequent :
                    i < j => RanksBefore(entries, most_frequent[i][1], most_frequent[j][1])
              /\ \A t \in TypesOf(entries) \ shown :
                    \A i \in DOMAIN most_frequent :
                        RanksBefore(entries, most_frequent[i][1], t)

\* a report over more than 5 error types, with two equally frequent types on the list
\* and a type left out that is as frequent as the last one of the list
C25_Witness ==
    /\ comp = "log_tool" /\ pc = "done" /\ result.kind = "report"
    /\ Cardinality(TypesOf(result.error_entries)) > 5
    /\ Len(result.error_patterns.most_frequent) = 5
    /\ result.error_patterns.most_frequent[1][2] = 2
    /\ result.error_patterns.most_frequent[4][2] = result.error_patterns.most_frequent[5][2]
    /\ \E t \in TypesOf(result.error_entries) :
          /\ \A i \in 1..5 : result.error_patterns.most_frequent[i][1] # t
          /\ TypeCount(result.error_entries, t) = result.error_patterns.most_frequent[5][2]

\* a directory without its unreadable files
Readable(dir) ==
    [dir EXCEPT !.files = Flatten([f \in 1..Len(dir.files) |->
                              IF dir.files[f].readable THEN <<dir.files[f]>> ELSE <<>>])]

\* the log agent and the code agent of handle_query work on an existing directory
\* and do not raise
AgentsRecover ==
    (comp = "handle_query" /\ pc = "raised")
        => ~ \/ stage = "log" /\ env.log_dir.exists
             \/ stage = "code" /\ env.codebase.exists
\* the log tool returns what it returns for the readable files alone
LogToolRecovers ==
    (comp = "log_tool" /\ pc = "done")
        => result = LogAnalysisTool_run(task_id, query, Readable(env.log_dir))
\* the code tool records one issue for an unreadable file and, for the other files,
\* the issues of the run over the readable files alone
CodeToolRecovers ==
    (comp = "code_tool" /\ pc = "done" /\ HasKey(context, "analysis_results"))
        => LET all == AllIssues(Value(context, "analysis_results"))
               alone == AllIssues(analysis_results(task_id, Readable(env.codebase)))
           IN \A k \in DOMAIN env.codebase.files :
                 LET name == env.codebase.files[k].name IN
                 IF env.codebase.files[k].readable
                 THEN OfFile(all, name) = OfFile(alone, name)
                 ELSE Len(OfFile(all, name)) = 1

\* C26: a log file or code file that cannot be read is skipped, or recorded as one
\* issue, and the stage completes with the data of the other files.
C26_UnreadableUnitRecovered ==
    AgentsRecover /\ LogToolRecovers /\ CodeToolRecovers

\* C27: when the code tool finds at least one code file, the value it returns is the
\* report built from the analysis results, with the severity breakdown and the issue
\* categories, and never an absent value.
C27_CodeToolReturnsReport ==
    (comp = "code_tool" /\ pc = "done" /\ find_code_files(env.codebase) # <<>>)
        => /\ result.kind # "None"
           /\ result = Value(context, "report")

\* the keys of the five stages in the order log, code, database, incident, jira
StageKeyOrder ==
    <<"log_summary", "code_analysis", "db_metrics", "incident_history", "jira_ticket">>
KeyPlace(k) == CHOOSE i \in DOMAIN StageKeyOrder : StageKeyOrder[i] = k
StageKeysWritten == {i \in DOMAIN context : context[i][1] \in Range(StageKeyOrder)}

\* C28: in handle_query the context holds code_analysis only if it holds log_summary;
\* each stage writes its key at most once and the keys are written in the order log,
\* code, database, incident, jira; a stage that is running has not run before and no
\* later stage has run.
C28_StagesOnceInFixedOrder ==
    comp = "handle_query"
        => /\ HasKey(context, "code_analysis") => HasKey(context, "log_summary")
           /\ \A i, j \in StageKeysWritten :
                 i < j => KeyPlace(context[i][1]) < KeyPlace(context[j][1])
           /\ pc = "running"
                 => \A i \in StageKeysWritten :
                       KeyPlace(context[i][1]) < KeyPlace(StageKey(stage))

\* the query with the trigger words in the order jira, incident, database, log: the
\* five stages have run, log first
C28_Witness ==
    /\ comp = "handle_query" /\ pc = "done"
    /\ query = Q_reverse
    /\ Len(context) = 7
    /\ context[3][1] = "log_summary"
    /\ context[4][1] = "code_analysis"
    /\ context[7][1] = "jira_ticket"

\* for each task id another one, so that every pair of task ids is compared
OtherTaskId ==
    CASE task_id = TID_1 -> TID_2
      [] task_id = TID_2 -> TID_12345
      [] OTHER -> TID_1

============================================================================
